---- MODULE Spec2Model ----
(***************************************************************************)
(* Model of the dotnet-deploy pipeline: the incremental SFTP sync engine   *)
(* (deployer.ts: deploy, shouldUploadFile), the publisher (publisher.ts:   *)
(* publish, compressWithUpx), the remote executor (deployer.ts:            *)
(* executeRemote) and the sequencer (sidebarProvider.ts: _handleDeploy).   *)
(*                                                                         *)
(* Every `await` of the code is a suspension point; one action of the      *)
(* model is the code that runs when the awaited operation returns, up to   *)
(* the next await.  The outcome of an external operation (a subprocess, an *)
(* SFTP request) is a nondeterministic input of the action.                *)
(***************************************************************************)
EXTENDS Integers, Sequences, FiniteSets, TLC

(* ------------------------------ bounds -------------------------------- *)
\* largest local modification time, in whole seconds
MaxSec == 1
\* largest value of the remote host's clock, in seconds
MaxClock == 1
\* number of environment events (deploy() calls, edits of the local tree, ticks
\* of the remote clock) in one behaviour of SpecSync
MaxEvents == 3

(* ------------------------- program constants -------------------------- *)
\* Math.floor(localStats.mtimeMs / 1000)
MsPerSec == 1000

(* ------------------------------ the world ----------------------------- *)
\* assemblyName: the project's executable; remoteDir/assemblyName is chmod'ed
AssemblyName == "app"
\* the files a publish directory can hold, in readdir order
FileOrder == <<"app", "lib">>
Files == {FileOrder[i] : i \in 1..Len(FileOrder)}

\* sub-second offsets of a local mtimeMs
MsOffsets == {0, 500}
LocalMtimes == {s * MsPerSec + o : s \in 0..MaxSec, o \in MsOffsets}
\* file sizes in bytes; the code only tests two sizes for equality
Sizes == {1, 2}

\* a stat that failed (fs.statSync threw, sftp.stat rejected)
NoStat == [ok |-> FALSE, size |-> 0, mtime |-> 0]
\* fs.Stats of a local file: size in bytes, mtimeMs in milliseconds
LocalStats == [ok : {TRUE}, size : Sizes, mtime : LocalMtimes]
\* sftp.stat() of a remote file: size in bytes, modifyTime as the code reads it
RemoteStats == [ok : {TRUE}, size : Sizes, mtime : 0..MaxClock]

VARIABLES
    \* ---- environment
    local,        \* local publish directory: file -> fs.Stats or NoStat (absent)
    remote,       \* remote directory: file -> stat or NoStat (absent)
    serverClock,  \* the remote host's clock (seconds)
    mkdirFaults,  \* the remote host rejects mkdir calls for other reasons than 'already exists'
    events,       \* environment events so far: deploy() calls, edits, clock ticks
    \* ---- deploy(): locals of the running call
    syncPc,       \* the await the call is suspended at
    syncCfg,      \* DeployConfig
    files,        \* getAllFiles(localPath)
    filesToUpload,
    idx,          \* position of the for..of loop
    skipped,
    uploaded,
    syncErr,      \* err.message of the exception being handled
    syncResult,   \* the DeployResult returned
    \* ---- observation of the remote operations issued by the running call
    connectCalls, endCalls, chmodCalls,
    putSet,       \* files whose put() succeeded in this call
    statErrors,   \* a stat of an existing remote file failed in this call
    mkdirError,   \* a mkdir failed otherwise than with 'already exists' in this call
    \* ---- observation across calls
    pre,          \* what was true when the running call started
    last,         \* the previous completed call
    touched,      \* files whose mtime strictly increased since the last call returned
    dirty,        \* any other change of the local tree since the last call returned
    \* ---- publish(): locals of the running call
    platform,     \* process.platform
    pubPc,        \* the await or event the call is suspended at
    pubOpts,      \* PublishOptions
    crossCompileWarning,
    crossArgs,    \* cross-compile arguments and environment were added to the build
    crossLibs,    \* Windows target: were library paths found ("n/a", "none", "some")
    stdout,       \* text captured from the build's stdout
    stderr,       \* text captured from the build's stderr
    pubResult,    \* the PublishResult the promise resolved with
    \* ---- observation of publish()
    statusLog,    \* phases passed to options.onStatus
    buildExit,    \* "none", or how the build subprocess ended
    upxCalls,     \* calls of compressWithUpx
    upxSpawns,    \* upx subprocesses spawned
    pkgCalls,     \* calls of packageForMacOS
    upxOutcome,   \* "none", or how the compression step ended
    pkgOutcome,   \* "none", or how the packaging step ended
    \* ---- executeRemote(): locals of the running call
    execPc,
    execResult,
    execRuns,     \* commands issued with client.exec
    execEvents,   \* what the call did and the events it received, in order
    \* ---- _handleDeploy(): locals of the running call
    msg,          \* the deploy message of the webview
    hPc,          \* the await the handler is suspended at
    posted,       \* messages passed to _postMessage
    calls,        \* how often each step was started
    \* ---- shouldUploadFile() called on its own
    suPc, suLocal, suRemote, suResult,
    \* ---- getWindowsCrossCompileArgs(): file system probed, position, result
    xwIn, xwPc, xwOut,
    \* ---- the command template of executeRemote(): input, position, command
    tplIn, tplPc, command,
    \* ---- detectToolchain(): position, probe outcomes seen, result
    tcPc, tcProbes, toolchain,
    \* ---- the sidebar webview: the deploy form and the position of doDeploy()
    form, webPc

envVars == <<local, remote, serverClock, mkdirFaults, events>>
syncVars == <<syncPc, syncCfg, files, filesToUpload, idx, skipped, uploaded,
              syncErr, syncResult, connectCalls, endCalls, chmodCalls, putSet,
              statErrors, mkdirError, pre>>
histVars == <<last, touched, dirty>>
pubVars == <<platform, pubPc, pubOpts, crossCompileWarning, crossArgs, crossLibs, stdout,
             stderr, pubResult, statusLog, buildExit, upxCalls, upxSpawns, pkgCalls,
             upxOutcome, pkgOutcome>>
execVars == <<execPc, execResult, execRuns, execEvents>>
hVars == <<msg, hPc, posted, calls>>
suVars == <<suPc, suLocal, suRemote, suResult>>
xwVars == <<xwIn, xwPc, xwOut>>
tplVars == <<tplIn, tplPc, command>>
tcVars == <<tcPc, tcProbes, toolchain>>
webVars == <<form, webPc>>
fnVars == <<suVars, xwVars, tplVars, tcVars, webVars>>
vars == <<envVars, syncVars, histVars, pubVars, execVars, hVars, fnVars>>

(* ------------------------------ helpers ------------------------------- *)
Range(s) == {s[i] : i \in 1..Len(s)}

\* getAllFiles: every regular file under localPath, in directory order
RECURSIVE Enumerate(_, _)
Enumerate(order, loc) ==
    IF order = <<>> THEN <<>>
    ELSE IF loc[Head(order)].ok
         THEN <<Head(order)>> \o Enumerate(Tail(order), loc)
         ELSE Enumerate(Tail(order), loc)

\* Faulty variant: every known name is listed, whether the file exists or not
getAllFiles_everyName(loc) == FileOrder

getAllFiles(loc) == Enumerate(FileOrder, loc)

(* ------------------------- shouldUploadFile --------------------------- *)
\* Faulty variant: the size comparison is dropped
ShouldUploadFile_noSize(localStats, remoteStat) ==
    IF ~localStats.ok THEN TRUE
    ELSE IF ~remoteStat.ok THEN TRUE
    ELSE (localStats.mtime \div MsPerSec) > remoteStat.mtime

\* Faulty variant: a failing remote stat skips the file
ShouldUploadFile_skipOnError(localStats, remoteStat) ==
    IF ~localStats.ok THEN TRUE
    ELSE IF ~remoteStat.ok THEN FALSE
    ELSE IF localStats.size # remoteStat.size THEN TRUE
    ELSE (localStats.mtime \div MsPerSec) > remoteStat.mtime

ShouldUploadFile(localStats, remoteStat) ==
    IF ~localStats.ok THEN TRUE                    \* outer catch: statSync threw
    ELSE IF ~remoteStat.ok THEN TRUE               \* inner catch: sftp.stat rejected
    ELSE IF localStats.size # remoteStat.size THEN TRUE
    ELSE IF (localStats.mtime \div MsPerSec) > remoteStat.mtime THEN TRUE
    ELSE FALSE

\* what sftp.stat(remoteFile) can do: resolve with the file's stat, or reject
\* because the file is absent or for any other reason
RemoteAnswers == [kind : {"absent", "error"}, stat : {NoStat}]
                 \cup [kind : {"ok"}, stat : RemoteStats]

\* shouldUploadFile(sftp, localFile, remoteFile): lines 235-243, up to the await
ShouldUploadCall ==
    /\ suPc = "idle"
    /\ IF suLocal.ok
       THEN suPc' = "stat" /\ UNCHANGED suResult
       ELSE suPc' = "done" /\ suResult' = ShouldUploadFile(suLocal, NoStat)
    /\ UNCHANGED <<suLocal, suRemote, xwVars, tplVars, tcVars, webVars>>
    /\ UNCHANGED <<envVars, syncVars, histVars, pubVars, execVars, hVars>>

\* sftp.stat resolves or rejects: lines 243-268
ShouldUploadStatReturn ==
    /\ suPc = "stat"
    /\ suResult' = ShouldUploadFile(suLocal, suRemote.stat)
    /\ suPc' = "done"
    /\ UNCHANGED <<suLocal, suRemote, xwVars, tplVars, tcVars, webVars>>
    /\ UNCHANGED <<envVars, syncVars, histVars, pubVars, execVars, hVars>>

(* ------------------------------ deploy() ------------------------------ *)
\* DeployConfig fields that deploy() reads more than once
SyncConfigs == [incremental : BOOLEAN]
\* config.telegramEnabled && telegramBotToken && telegramChatId, telegramUpload:
\* "off" | "notify" | "upload"; read where the code reads it
TelegramModes == {"off", "notify", "upload"}

\* how sftp.mkdir(dir, true) ends: created, or rejected with a message that
\* holds 'already exists', or, on a host that rejects mkdir calls, rejected with
\* any other message
MkdirOutcomes ==
    {"created", "already exists"} \cup
        (IF mkdirFaults THEN {"permission denied"} ELSE {})

NoMkdirError == [seen |-> FALSE, uploaded |-> 0]

\* the first mkdir error other than 'already exists', with the number of files
\* put before it
MkdirObserved(outcome) ==
    IF outcome = "permission denied" /\ ~mkdirError.seen
    THEN [seen |-> TRUE, uploaded |-> uploaded]
    ELSE mkdirError

NoResult == [done |-> FALSE, success |-> FALSE, error |-> ""]
NoPre == [ok |-> FALSE, inc |-> FALSE, touched |-> {}, dirty |-> FALSE, absent |-> {}]

\* the catch block (lines 183-200) up to its first await
Catch(m, tg) ==
    /\ syncErr' = m
    /\ syncPc' = IF tg # "off" THEN "tgFail" ELSE "catchEnd"

\* Faulty variant: with nothing to upload the chmod is left out
StartUploads_skipEmpty(cands) ==
    /\ filesToUpload' = cands
    /\ uploaded' = 0
    /\ idx' = 1
    /\ syncPc' = IF cands = <<>> THEN "end" ELSE "mkdirParent"

\* the code after the candidate list is known (lines 115-146) up to its first await
StartUploads(cands) ==
    /\ filesToUpload' = cands
    /\ uploaded' = 0
    /\ idx' = 1
    /\ syncPc' = IF cands = <<>> THEN "chmod" ELSE "mkdirParent"

\* deploy(config, localPath, assemblyName): lines 50-72, up to `await sftp.connect`
\* keyOk: authType = 'password', or the private key file exists
DeployCall(cfg, keyOk) ==
    /\ syncPc \in {"idle", "done"}
    /\ syncCfg' = cfg
    /\ files' = <<>>
    /\ filesToUpload' = <<>>
    /\ idx' = 1
    /\ skipped' = 0
    /\ uploaded' = 0
    /\ syncResult' = NoResult
    /\ connectCalls' = IF keyOk THEN 1 ELSE 0
    /\ endCalls' = 0
    /\ chmodCalls' = 0
    /\ putSet' = {}
    /\ statErrors' = FALSE
    /\ mkdirError' = NoMkdirError
    /\ pre' = [ok |-> last.ok, inc |-> last.inc, touched |-> touched,
               dirty |-> dirty,
               absent |-> {f \in Files : local[f].ok /\ ~remote[f].ok}]
    /\ IF keyOk
       THEN syncPc' = "connect" /\ syncErr' = ""
       ELSE \E tg \in TelegramModes : Catch("Private key not found", tg)

\* sftp.connect returns: lines 72-80, up to `await sftp.mkdir(remoteDir, true)`
ConnectReturn ==
    /\ syncPc = "connect"
    /\ \E ok \in BOOLEAN, tg \in TelegramModes :
        /\ ok => msg.host
        /\ IF ok THEN syncPc' = "mkdirRoot" /\ UNCHANGED syncErr
           ELSE Catch("connect failed", tg)
    /\ UNCHANGED <<envVars, histVars, syncCfg, files, filesToUpload, idx, skipped,
                   uploaded, syncResult, connectCalls, endCalls, chmodCalls,
                   putSet, statErrors, mkdirError, pre>>
    /\ UNCHANGED <<pubVars, execVars, hVars, fnVars>>

\* sftp.mkdir(remoteDir) returns or throws: lines 79-119.  The catch at line 82
\* swallows every error; getAllFiles then lists the local tree.
MkdirRootReturn ==
    /\ syncPc = "mkdirRoot"
    /\ \E outcome \in MkdirOutcomes :
        LET fs == getAllFiles(local) IN
        /\ mkdirError' = MkdirObserved(outcome)
        /\ files' = fs
        /\ skipped' = 0
        /\ IF syncCfg.incremental /\ fs # <<>>
           THEN /\ filesToUpload' = <<>>
                /\ idx' = 1
                /\ syncPc' = "stat"
                /\ UNCHANGED uploaded
           ELSE StartUploads(IF syncCfg.incremental THEN <<>> ELSE fs)
    /\ UNCHANGED <<envVars, histVars, syncCfg, syncErr, syncResult, connectCalls,
                   endCalls, chmodCalls, putSet, statErrors, pre>>
    /\ UNCHANGED <<pubVars, execVars, hVars, fnVars>>

\* sftp.stat(remoteFilePath) returns or throws inside shouldUploadFile: lines 100-113
StatReturn ==
    /\ syncPc = "stat"
    /\ LET f == files[idx] IN
       \E statOk \in BOOLEAN :
        LET remoteStat == IF statOk THEN remote[f] ELSE NoStat
            needsUpload == ShouldUploadFile(local[f], remoteStat)
            cands == IF needsUpload THEN Append(filesToUpload, f) ELSE filesToUpload
        IN
        /\ statErrors' = (statErrors \/ (~statOk /\ remote[f].ok))
        /\ skipped' = IF needsUpload THEN skipped ELSE skipped + 1
        /\ IF idx < Len(files)
           THEN /\ filesToUpload' = cands
                /\ idx' = idx + 1
                /\ UNCHANGED <<syncPc, uploaded>>
           ELSE StartUploads(cands)
    /\ UNCHANGED <<envVars, histVars, syncCfg, files, syncErr, syncResult,
                   connectCalls, endCalls, chmodCalls, putSet, mkdirError, pre>>
    /\ UNCHANGED <<pubVars, execVars, hVars, fnVars>>

\* sftp.mkdir(remoteFileDir) returns or throws: lines 128-135; every error is ignored
MkdirParentReturn ==
    /\ syncPc = "mkdirParent"
    /\ \E outcome \in MkdirOutcomes :
        /\ mkdirError' = MkdirObserved(outcome)
        /\ syncPc' = "put"
    /\ UNCHANGED <<envVars, histVars, syncCfg, files, filesToUpload, idx, skipped,
                   uploaded, syncErr, syncResult, connectCalls, endCalls,
                   chmodCalls, putSet, statErrors, pre>>
    /\ UNCHANGED <<pubVars, execVars, hVars, fnVars>>

\* Faulty variant: a failed put is noted and the loop goes on to the next candidate
PutReturn_keepGoing ==
    /\ syncPc = "put"
    /\ LET f == filesToUpload[idx] IN
       \E ok \in BOOLEAN, tg \in TelegramModes :
        /\ remote' = IF ok THEN [remote EXCEPT ![f] =
                        [ok |-> TRUE, size |-> local[f].size, mtime |-> serverClock]]
                      ELSE remote
        /\ putSet' = IF ok THEN putSet \cup {f} ELSE putSet
        /\ uploaded' = IF ok THEN uploaded + 1 ELSE uploaded
        /\ IF idx < Len(filesToUpload)
           THEN /\ idx' = idx + 1 /\ syncPc' = "mkdirParent"
                /\ syncErr' = IF ok THEN syncErr ELSE "put failed"
           ELSE /\ idx' = idx
                /\ IF ok THEN syncPc' = "chmod" /\ UNCHANGED syncErr
                   ELSE Catch("put failed", tg)
    /\ UNCHANGED <<local, serverClock, mkdirFaults, events, histVars, syncCfg, files,
                   filesToUpload, skipped, syncResult, connectCalls, endCalls,
                   chmodCalls, statErrors, mkdirError, pre>>
    /\ UNCHANGED <<pubVars, execVars, hVars, fnVars>>

\* sftp.put(file, remotePath) returns or throws: lines 135-146.  A completed put
\* leaves a remote file of the local size, written at the remote clock's time.
PutReturn ==
    /\ syncPc = "put"
    /\ LET f == filesToUpload[idx] IN
       \E ok \in BOOLEAN, tg \in TelegramModes :
        IF ok
        THEN /\ remote' = [remote EXCEPT ![f] =
                    [ok |-> TRUE, size |-> local[f].size, mtime |-> serverClock]]
             /\ putSet' = putSet \cup {f}
             /\ uploaded' = uploaded + 1
             /\ IF idx < Len(filesToUpload)
                THEN idx' = idx + 1 /\ syncPc' = "mkdirParent"
                ELSE idx' = idx /\ syncPc' = "chmod"
             /\ UNCHANGED syncErr
        ELSE /\ Catch("put failed", tg)
             /\ UNCHANGED <<remote, putSet, uploaded, idx>>
    /\ UNCHANGED <<local, serverClock, mkdirFaults, events, histVars, syncCfg, files,
                   filesToUpload, skipped, syncResult, connectCalls, endCalls,
                   chmodCalls, statErrors, mkdirError, pre>>
    /\ UNCHANGED <<pubVars, execVars, hVars, fnVars>>

\* Faulty variant: a chmod that throws is ignored
ChmodReturn_ignoreFailure ==
    /\ syncPc = "chmod"
    /\ chmodCalls' = chmodCalls + 1
    /\ \E ok \in BOOLEAN :
        /\ ok => remote[AssemblyName].ok
        /\ syncPc' = "end"
    /\ UNCHANGED <<envVars, histVars, syncCfg, files, filesToUpload, idx, skipped,
                   uploaded, syncErr, syncResult, connectCalls, endCalls, putSet,
                   statErrors, mkdirError, pre>>
    /\ UNCHANGED <<pubVars, execVars, hVars, fnVars>>

\* sftp.chmod(executablePath, 0o755) returns or throws: lines 146-149
ChmodReturn ==
    /\ syncPc = "chmod"
    /\ chmodCalls' = chmodCalls + 1
    /\ \E ok \in BOOLEAN, tg \in TelegramModes :
        \* chmod of a path that does not exist fails
        /\ ok => remote[AssemblyName].ok
        /\ IF ok THEN syncPc' = "end" /\ UNCHANGED syncErr
           ELSE Catch("chmod failed", tg)
    /\ UNCHANGED <<envVars, histVars, syncCfg, files, filesToUpload, idx, skipped,
                   uploaded, syncResult, connectCalls, endCalls, putSet,
                   statErrors, mkdirError, pre>>
    /\ UNCHANGED <<pubVars, execVars, hVars, fnVars>>

\* deploy() returns: the observation of the finished call is recorded
Return(res) ==
    /\ syncPc' = "done"
    /\ syncResult' = res
    /\ last' = [ok |-> res.success, inc |-> syncCfg.incremental]
    /\ touched' = {}
    /\ dirty' = FALSE

\* sftp.end() of line 149 returns or throws: lines 149-181
EndReturn ==
    /\ syncPc = "end"
    /\ endCalls' = endCalls + 1
    /\ \E ok \in BOOLEAN, tg \in TelegramModes :
        IF ~ok THEN Catch("end failed", tg) /\ UNCHANGED <<syncResult, histVars>>
        ELSE IF tg # "off"
             THEN syncPc' = "tgOk" /\ UNCHANGED <<syncErr, syncResult, histVars>>
             ELSE /\ Return([done |-> TRUE, success |-> TRUE, error |-> ""])
                  /\ UNCHANGED syncErr
    /\ UNCHANGED <<envVars, syncCfg, files, filesToUpload, idx, skipped, uploaded,
                   connectCalls, chmodCalls, putSet, statErrors, mkdirError, pre>>
    /\ UNCHANGED <<pubVars, execVars, hVars, fnVars>>

\* sendTelegramNotification (success) resolves: lines 153-181; it never rejects
TelegramOkReturn ==
    /\ syncPc = "tgOk"
    /\ \E tg \in TelegramModes \ {"off"} :
        IF tg = "upload" /\ local[AssemblyName].ok
        THEN syncPc' = "tgDoc" /\ UNCHANGED <<syncErr, syncResult, histVars>>
        ELSE /\ Return([done |-> TRUE, success |-> TRUE, error |-> ""])
             /\ UNCHANGED syncErr
    /\ UNCHANGED <<envVars, syncCfg, files, filesToUpload, idx, skipped, uploaded,
                   connectCalls, endCalls, chmodCalls, putSet, statErrors, mkdirError, pre>>
    /\ UNCHANGED <<pubVars, execVars, hVars, fnVars>>

\* sendTelegramDocument resolves, or rejects because fs.statSync threw in its
\* executor (line 397): lines 167-181
TelegramDocReturn ==
    /\ syncPc = "tgDoc"
    /\ \E ok \in BOOLEAN :
        IF ok
        THEN /\ Return([done |-> TRUE, success |-> TRUE, error |-> ""])
             /\ UNCHANGED syncErr
        ELSE Catch("artifact stat failed", "upload") /\ UNCHANGED <<syncResult, histVars>>
    /\ UNCHANGED <<envVars, syncCfg, files, filesToUpload, idx, skipped, uploaded,
                   connectCalls, endCalls, chmodCalls, putSet, statErrors, mkdirError, pre>>
    /\ UNCHANGED <<pubVars, execVars, hVars, fnVars>>

\* sendTelegramNotification (failure) resolves: lines 185-195
TelegramFailReturn ==
    /\ syncPc = "tgFail"
    /\ syncPc' = "catchEnd"
    /\ UNCHANGED <<envVars, histVars, syncCfg, files, filesToUpload, idx, skipped,
                   uploaded, syncErr, syncResult, connectCalls, endCalls,
                   chmodCalls, putSet, statErrors, mkdirError, pre>>
    /\ UNCHANGED <<pubVars, execVars, hVars, fnVars>>

\* sftp.end() of line 195 returns or throws: lines 194-199
CatchEndReturn ==
    /\ syncPc = "catchEnd"
    /\ endCalls' = endCalls + 1
    /\ \E ok \in BOOLEAN :
        Return([done |-> TRUE, success |-> FALSE, error |-> syncErr])
    /\ UNCHANGED <<envVars, syncCfg, files, filesToUpload, idx, skipped, uploaded,
                   syncErr, connectCalls, chmodCalls, putSet, statErrors, mkdirError, pre>>
    /\ UNCHANGED <<pubVars, execVars, hVars, fnVars>>

(* ---------------------------- environment ----------------------------- *)
\* the remote host's clock advances
Tick ==
    /\ serverClock < MaxClock
    /\ events < MaxEvents
    /\ events' = events + 1
    /\ serverClock' = serverClock + 1
    /\ UNCHANGED <<local, remote, mkdirFaults, syncVars, histVars>>
    /\ UNCHANGED <<pubVars, execVars, hVars, fnVars>>

\* between two syncs a local file is rewritten: its mtime strictly increases
TouchFile ==
    /\ syncPc \in {"idle", "done"}
    /\ events < MaxEvents
    /\ \E f \in Files, st \in LocalStats :
        /\ local[f].ok
        /\ st.mtime > local[f].mtime
        /\ local' = [local EXCEPT ![f] = st]
        /\ touched' = touched \cup {f}
    /\ events' = events + 1
    /\ UNCHANGED <<remote, serverClock, mkdirFaults, syncVars, last, dirty>>
    /\ UNCHANGED <<pubVars, execVars, hVars, fnVars>>

\* between two syncs the local tree changes in any other way: a file is
\* created, deleted, or rewritten without its mtime increasing
OtherEdit ==
    /\ syncPc \in {"idle", "done"}
    /\ events < MaxEvents
    /\ \E f \in Files, st \in LocalStats \cup {NoStat} :
        /\ st # local[f]
        /\ ~(local[f].ok /\ st.ok /\ st.mtime > local[f].mtime)
        /\ local' = [local EXCEPT ![f] = st]
    /\ dirty' = TRUE
    /\ events' = events + 1
    /\ UNCHANGED <<remote, serverClock, mkdirFaults, syncVars, last, touched>>
    /\ UNCHANGED <<pubVars, execVars, hVars, fnVars>>

\* deploy() is called on the current local tree
SyncRequest ==
    /\ events < MaxEvents
    /\ events' = events + 1
    /\ \E cfg \in SyncConfigs, keyOk \in BOOLEAN : DeployCall(cfg, keyOk)
    /\ UNCHANGED <<local, remote, serverClock, mkdirFaults, histVars>>
    /\ UNCHANGED <<pubVars, execVars, hVars, fnVars>>

(* -------------------- getWindowsCrossCompileArgs() -------------------- *)
\* the two copies of the xwin module the repository holds
XwinCopies == {"xwinSetup.ts", "part_001"}
WinRuntimes == {"win-x64", "win-arm64"}
LibDirs == <<"crt", "um", "ucrt">>

\* types.ts lines 152-157, for the runtime identifiers above
getWindowsArch(runtime) == IF runtime = "win-arm64" THEN "arm64" ELSE "x64"

\* lines 149-151: crtLibPath, sdkUmPath, sdkUcrtPath under the splat directory
LibPath(dir, arch) ==
    IF dir = "crt" THEN "splat/crt/lib/" \o arch
    ELSE "splat/sdk/lib/" \o dir \o "/" \o arch

\* Array.prototype.join
RECURSIVE Join(_, _)
Join(seq, sep) ==
    IF seq = <<>> THEN ""
    ELSE IF Len(seq) = 1 THEN seq[1]
    ELSE seq[1] \o sep \o Join(Tail(seq), sep)

\* Array.prototype.filter on the list of library paths
RECURSIVE ExistingLibPaths(_, _, _)
ExistingLibPaths(dirs, found, arch) ==
    IF dirs = <<>> THEN <<>>
    ELSE (IF dirs[1] \in found THEN <<LibPath(dirs[1], arch)>> ELSE <<>>)
         \o ExistingLibPaths(Tail(dirs), found, arch)

\* Array.prototype.map(p => `/LIBPATH:${p}`)
RECURSIVE LibPathArgs(_)
LibPathArgs(paths) ==
    IF paths = <<>> THEN <<>>
    ELSE <<"/LIBPATH:" \o paths[1]>> \o LibPathArgs(Tail(paths))

\* path.delimiter of the host
PathDelimiter(host) == IF host = "win32" THEN ";" ELSE ":"

\* the LIB value: xwinSetup.ts line 201, part_001 line 203
LibEnv(copy, paths, host) ==
    IF copy = "xwinSetup.ts" THEN Join(paths, ";")
    ELSE Join(paths, PathDelimiter(host))

\* the MSBuild arguments: xwinSetup.ts lines 177-190, part_001 lines 175-200
CrossArgs(copy, paths, lldPath) ==
    <<"-p:DisableUnsupportedError=true", "-p:AcceptVSBuildToolsLicense=true",
      "-p:EnableSourceLink=false", "-p:EnableSourceControlManagerQueries=false",
      "-p:CppLinker=" \o (IF lldPath THEN "/opt/lld/bin/lld-link" ELSE "lld-link")>>
    \o (IF copy = "xwinSetup.ts" THEN <<>>
        ELSE <<"-p:IlcAdditionalLinkArgs=\"" \o Join(LibPathArgs(paths), ";") \o "\"">>)

\* what the call finds on disk; crt/lib/<arch> lies inside the crt directory
XwinInputs ==
    {i \in [copy : XwinCopies, runtime : WinRuntimes, crt : BOOLEAN,
            libs : SUBSET Range(LibDirs), lld : BOOLEAN, lldPath : BOOLEAN] :
        "crt" \in i.libs => i.crt}
NoXwinInput == [copy |-> "xwinSetup.ts", runtime |-> "win-x64", crt |-> FALSE,
                libs |-> {}, lld |-> FALSE, lldPath |-> FALSE]
NoXwinResult == [done |-> FALSE, success |-> FALSE, args |-> <<>>,
                 envKeys |-> {}, LIB |-> "", error |-> ""]
\* Faulty variant: a failure still carries the environment overlay
XwinFailed_withEnv(err) == [done |-> TRUE, success |-> FALSE, args |-> <<>>,
                            envKeys |-> {"LIB", "PATH"}, LIB |-> "", error |-> err]

XwinFailed(err) == [done |-> TRUE, success |-> FALSE, args |-> <<>>,
                    envKeys |-> {}, LIB |-> "", error |-> err]

\* lines 176-215: the result once the SDK cache and the linker were found
XwinSuccess(in, host) ==
    LET libPaths == ExistingLibPaths(LibDirs, in.libs, getWindowsArch(in.runtime))
    IN [done |-> TRUE, success |-> TRUE,
        args |-> CrossArgs(in.copy, libPaths, in.lldPath),
        envKeys |-> {"LIB", "PATH"},
        LIB |-> LibEnv(in.copy, libPaths, host),
        error |-> ""]

\* the value getWindowsCrossCompileArgs returns: lines 143-215
WindowsCrossCompileArgs(in, host) ==
    IF ~in.crt THEN XwinFailed("Windows SDK not found")
    ELSE IF ~in.lld THEN XwinFailed("lld-link is not installed")
    ELSE XwinSuccess(in, host)

\* getWindowsCrossCompileArgs(runtime): lines 143-163, up to `await checkLld`
XwinCall ==
    /\ xwPc = "idle"
    /\ IF ~xwIn.crt
       THEN xwPc' = "done" /\ xwOut' = XwinFailed("Windows SDK not found")
       ELSE xwPc' = "checkLld" /\ UNCHANGED xwOut
    /\ UNCHANGED <<xwIn, suVars, tplVars, tcVars, webVars>>
    /\ UNCHANGED <<envVars, syncVars, histVars, pubVars, execVars, hVars>>

\* checkLld resolves: lines 163-174, up to `await getLldLinkPath`
XwinLldReturn ==
    /\ xwPc = "checkLld"
    /\ IF ~xwIn.lld
       THEN xwPc' = "done" /\ xwOut' = XwinFailed("lld-link is not installed")
       ELSE xwPc' = "lldPath" /\ UNCHANGED xwOut
    /\ UNCHANGED <<xwIn, suVars, tplVars, tcVars, webVars>>
    /\ UNCHANGED <<envVars, syncVars, histVars, pubVars, execVars, hVars>>

\* getLldLinkPath resolves: lines 174-215
XwinLldPathReturn ==
    /\ xwPc = "lldPath"
    /\ xwOut' = XwinSuccess(xwIn, platform)
    /\ xwPc' = "done"
    /\ UNCHANGED <<xwIn, suVars, tplVars, tcVars, webVars>>
    /\ UNCHANGED <<envVars, syncVars, histVars, pubVars, execVars, hVars>>

(* ------------------ executeRemote(): command template ----------------- *)
\* the pieces a configured command is made of: the three placeholders, a
\* placeholder the code does not know, and plain text
Placeholders == {"{app_name}", "{remote_path}", "{app_path}"}
TemplatePieces == Placeholders \cup {"{user}", "run "}
\* bound on the number of pieces of a configured command
MaxPieces == 3
Templates == UNION {[1..n -> TemplatePieces] : n \in 0..MaxPieces}
\* line 301: the command used when none is configured
DefaultTemplate == <<"sudo ", "{remote_path}", "/", "{app_name}", " start">>
\* config.remotePath, with and without a trailing slash
RemotePaths == {"/srv", "/srv/"}

\* path.posix.join(remotePath, name) for the remote paths above
PosixJoin(remotePath, name) ==
    IF remotePath = "/srv/" THEN "/srv/" \o name ELSE remotePath \o "/" \o name

\* Faulty variant: only the first occurrence is replaced
ReplaceAll_first(pieces, placeholder, value) ==
    [i \in 1..Len(pieces) |->
        IF pieces[i] = placeholder /\ \A j \in 1..(i - 1) : pieces[j] # placeholder
        THEN value ELSE pieces[i]]

\* String.prototype.replace with a /g pattern: lines 304-306
ReplaceAll(pieces, placeholder, value) ==
    [i \in 1..Len(pieces) |-> IF pieces[i] = placeholder THEN value ELSE pieces[i]]

\* lines 300-306: the command executeRemote sends
ExpandCommand(afterUploadCommand, remotePath, assemblyName) ==
    LET remoteExe == PosixJoin(PosixJoin(remotePath, assemblyName), assemblyName)
        template == IF afterUploadCommand = <<>> THEN DefaultTemplate
                    ELSE afterUploadCommand
        step1 == ReplaceAll(template, "{app_name}", assemblyName)
        step2 == ReplaceAll(step1, "{remote_path}", PosixJoin(remotePath, assemblyName))
        step3 == ReplaceAll(step2, "{app_path}", remoteExe)
    IN Join(step3, "")

TemplateInputs == [afterUploadCommand : Templates, remotePath : RemotePaths]
NoTemplateInput == [afterUploadCommand |-> <<>>, remotePath |-> "/srv"]

\* the 'ready' handler builds the command: lines 299-308
ExpandCall ==
    /\ tplPc = "idle"
    /\ command' = ExpandCommand(tplIn.afterUploadCommand, tplIn.remotePath, AssemblyName)
    /\ tplPc' = "done"
    /\ UNCHANGED <<tplIn, suVars, xwVars, tcVars, webVars>>
    /\ UNCHANGED <<envVars, syncVars, histVars, pubVars, execVars, hVars>>

(* -------------------------- detectToolchain() ------------------------- *)
\* what a probe command (`which tool`) can do: print a path, print nothing, fail
WhichOutcomes == {"path", "empty", "fail"}
\* what a version or size command can do
CommandOutcomes == {"ok", "fail"}

\* the value of a check, or an exception leaving it
ToolThrown == [threw |-> TRUE, installed |-> FALSE, path |-> "none", detail |-> FALSE]
NotInstalled == [threw |-> FALSE, installed |-> FALSE, path |-> "none", detail |-> FALSE]
ToolInstalled(path, detail) ==
    [threw |-> FALSE, installed |-> TRUE, path |-> path, detail |-> detail]

\* Faulty variant: the catch block rethrows
TryCatch_rethrow(body, handler) == body

\* try { body } catch { handler }
TryCatch(body, handler) == IF body.threw THEN handler ELSE body

\* `await execAsync(cmd)` followed by the rest of the block
Await(outcome, rest) == IF outcome = "fail" THEN ToolThrown ELSE rest

\* lines 40-58
checkZig(p) ==
    TryCatch(Await(p.which,
                   IF p.which = "empty" THEN NotInstalled
                   ELSE Await(p.version, ToolInstalled("which", TRUE))),
             NotInstalled)

\* lines 63-99; checkXwin, lines 104-137, has the same shape
checkLld(p) ==
    TryCatch(Await(p.which,
                   IF p.which = "path"
                   THEN Await(p.version, ToolInstalled("which", TRUE))
                   ELSE NotInstalled),
             TryCatch(IF p.fallback
                      THEN Await(p.fallbackVersion, ToolInstalled("fallback", TRUE))
                      ELSE NotInstalled,
                      NotInstalled))

\* lines 104-137
checkXwin(p) ==
    TryCatch(Await(p.which,
                   IF p.which = "empty" THEN NotInstalled
                   ELSE Await(p.version, ToolInstalled("which", TRUE))),
             TryCatch(IF p.fallback
                      THEN Await(p.fallbackVersion, ToolInstalled("fallback", TRUE))
                      ELSE NotInstalled,
                      NotInstalled))

\* lines 142-177
checkLlvm(p) ==
    TryCatch(Await(p.which,
                   IF p.which = "path" THEN ToolInstalled("which", FALSE)
                   ELSE NotInstalled),
             TryCatch(IF p.fallback THEN ToolInstalled("fallback", FALSE)
                      ELSE NotInstalled,
                      NotInstalled))

\* lines 182-208
checkWindowsSdk(p) ==
    IF p.exists
    THEN TryCatch(Await(p.du, ToolInstalled("sdk", TRUE)), ToolInstalled("sdk", FALSE))
    ELSE NotInstalled

ZigProbes == [which : WhichOutcomes, version : CommandOutcomes]
FallbackProbes == [which : WhichOutcomes, version : CommandOutcomes,
                   fallback : BOOLEAN, fallbackVersion : CommandOutcomes]
LlvmProbes == [which : WhichOutcomes, fallback : BOOLEAN]
SdkProbes == [exists : BOOLEAN, du : CommandOutcomes]
NoProbes == [zig |-> [which |-> "fail", version |-> "fail"],
             lld |-> [which |-> "fail", version |-> "fail", fallback |-> FALSE,
                      fallbackVersion |-> "fail"],
             xwin |-> [which |-> "fail", version |-> "fail", fallback |-> FALSE,
                       fallbackVersion |-> "fail"],
             llvm |-> [which |-> "fail", fallback |-> FALSE],
             sdk |-> [exists |-> FALSE, du |-> "fail"]]
NoToolchain == [zig |-> NotInstalled, lld |-> NotInstalled, xwin |-> NotInstalled,
                llvm |-> NotInstalled, windowsSdk |-> NotInstalled]

\* detectToolchain(): lines 18-24, the four checks are started
DetectCall ==
    /\ tcPc = "idle"
    /\ tcPc' = "checks"
    /\ UNCHANGED <<tcProbes, toolchain, suVars, xwVars, tplVars, webVars>>
    /\ UNCHANGED <<envVars, syncVars, histVars, pubVars, execVars, hVars>>

\* Promise.all settles: lines 19-26; it rejects as soon as one check rejects
DetectChecksReturn ==
    /\ tcPc = "checks"
    /\ \E z \in ZigProbes, l \in FallbackProbes, x \in FallbackProbes, v \in LlvmProbes :
        /\ tcProbes' = [tcProbes EXCEPT !.zig = z, !.lld = l, !.xwin = x, !.llvm = v]
        /\ toolchain' = [toolchain EXCEPT !.zig = checkZig(z), !.lld = checkLld(l),
                                          !.xwin = checkXwin(x), !.llvm = checkLlvm(v)]
        /\ tcPc' = IF \/ checkZig(z).threw \/ checkLld(l).threw
                      \/ checkXwin(x).threw \/ checkLlvm(v).threw
                   THEN "rejected" ELSE "sdk"
    /\ UNCHANGED <<suVars, xwVars, tplVars, webVars>>
    /\ UNCHANGED <<envVars, syncVars, histVars, pubVars, execVars, hVars>>

\* checkWindowsSdk settles: lines 26-34
DetectSdkReturn ==
    /\ tcPc = "sdk"
    /\ \E k \in SdkProbes :
        /\ tcProbes' = [tcProbes EXCEPT !.sdk = k]
        /\ toolchain' = [toolchain EXCEPT !.windowsSdk = checkWindowsSdk(k)]
        /\ tcPc' = IF checkWindowsSdk(k).threw THEN "rejected" ELSE "done"
    /\ UNCHANGED <<suVars, xwVars, tplVars, webVars>>
    /\ UNCHANGED <<envVars, syncVars, histVars, pubVars, execVars, hVars>>

(* ------------------------------ publish() ----------------------------- *)
Platforms == {"darwin", "linux", "win32"}
Runtimes == {"linux-x64", "win-x64", "osx-arm64"}

\* runtime.startsWith(prefix), for the runtime identifiers above
StartsWith(runtime, prefix) ==
    \/ prefix = "linux-" /\ runtime = "linux-x64"
    \/ prefix = "win-" /\ runtime = "win-x64"
    \/ prefix = "osx-" /\ runtime = "osx-arm64"

\* Faulty variant: every build is treated as a cross-compilation
isCrossCompileNeeded_always(plat, runtime) == TRUE

isCrossCompileNeeded(plat, runtime) ==
    IF plat = "darwin" THEN ~StartsWith(runtime, "osx-")
    ELSE IF plat = "linux" THEN ~StartsWith(runtime, "linux-")
    ELSE IF plat = "win32" THEN ~StartsWith(runtime, "win-")
    ELSE FALSE

getCrossCompileTarget(runtime) ==
    IF StartsWith(runtime, "linux-") THEN "linux"
    ELSE IF StartsWith(runtime, "win-") THEN "windows"
    ELSE IF StartsWith(runtime, "osx-") THEN "macos"
    ELSE "native"

getRequiredTools(runtime) ==
    IF StartsWith(runtime, "linux-") THEN {"zig"}
    ELSE IF StartsWith(runtime, "win-") THEN {"lld", "xwin", "windowsSdk"}
    ELSE {}

\* the order in which checkMissingTools goes through the required tools
ToolOrder == <<"zig", "lld", "xwin", "windowsSdk">>

\* the name a missing tool is reported under: toolchain.ts lines 379-390
ToolLabel(tool) == IF tool = "windowsSdk" THEN "Windows SDK" ELSE tool

RECURSIVE MissingOf(_, _, _)
MissingOf(order, required, status) ==
    IF order = <<>> THEN <<>>
    ELSE (IF order[1] \in required /\ ~status[order[1]].installed
          THEN <<ToolLabel(order[1])>> ELSE <<>>)
         \o MissingOf(Tail(order), required, status)

\* Faulty variant: the Windows SDK cache is not looked at
checkMissingTools_noSdk(runtime, status) ==
    MissingOf(ToolOrder, getRequiredTools(runtime) \ {"windowsSdk"}, status)

\* toolchain.ts lines 371-394, on the status detectToolchain resolved with
checkMissingTools(runtime, status) ==
    MissingOf(ToolOrder, getRequiredTools(runtime), status)

\* toolchain.ts lines 409-440
getToolchainSummary(status) ==
    LET linuxMissing == IF ~status.zig.installed THEN <<"Zig">> ELSE <<>>
        windowsMissing ==
            (IF ~status.lld.installed THEN <<"LLD">> ELSE <<>>)
            \o (IF ~status.xwin.installed THEN <<"xwin">> ELSE <<>>)
            \o (IF ~status.windowsSdk.installed THEN <<"Windows SDK">> ELSE <<>>)
    IN [linuxReady |-> Len(linuxMissing) = 0,
        windowsReady |-> Len(windowsMissing) = 0,
        linuxMissing |-> linuxMissing,
        windowsMissing |-> windowsMissing]

isMacOS == platform = "darwin"

PublishOptionsSet == [runtime : Runtimes, publishAot : BOOLEAN, upxEnabled : BOOLEAN,
                      crossCompileEnabled : BOOLEAN]
NoOptions == [runtime |-> "linux-x64", publishAot |-> FALSE, upxEnabled |-> FALSE,
              crossCompileEnabled |-> TRUE]
NoPublishResult == [done |-> FALSE, success |-> FALSE, outputPath |-> "",
                    error |-> "", crossCompileWarning |-> ""]
\* the trees `dotnet publish` leaves in the publish directory
BuildOutputs ==
    { [f \in Files |-> IF f \in fs THEN [ok |-> TRUE, size |-> 2, mtime |-> MsPerSec]
                       ELSE NoStat] : fs \in {Files, Files \ {AssemblyName}} }

\* Faulty variant: a later resolve replaces the settled result
Resolved_lastWins(cur, res) == res

\* resolve(res): a promise settles once; a later resolve is ignored
Resolved(cur, res) == IF cur.done THEN cur ELSE res

\* lines 113-160: the argument list is assembled, 'compile' is reported and the
\* build subprocess is spawned
SpawnBuild ==
    /\ statusLog' = Append(statusLog, "compile")
    /\ pubPc' = "build"

\* publish(options): lines 69-111 up to `await checkMissingTools`, or up to the
\* spawn when no cross-compilation is set up
PublishCall(options) ==
    /\ pubPc = "idle"
    /\ pubOpts' = options
    /\ crossCompileWarning' = ""
    /\ crossArgs' = FALSE
    /\ crossLibs' = "n/a"
    /\ pubResult' = NoPublishResult
    /\ buildExit' = "none"
    /\ upxCalls' = 0
    /\ upxSpawns' = 0
    /\ pkgCalls' = 0
    /\ upxOutcome' = "none"
    /\ pkgOutcome' = "none"
    /\ stdout' = ""
    /\ stderr' = ""
    /\ IF /\ isCrossCompileNeeded(platform, options.runtime)
          /\ options.crossCompileEnabled
          /\ options.publishAot
       THEN pubPc' = "checkTools" /\ statusLog' = <<>>
       ELSE pubPc' = "build" /\ statusLog' = <<"compile">>

\* checkMissingTools resolves: lines 91-99, up to `await prepareCrossCompileArgs`
CheckToolsReturn ==
    /\ pubPc = "checkTools"
    /\ \E missing \in SUBSET getRequiredTools(pubOpts.runtime) :
        crossCompileWarning' = IF missing # {} THEN "missing tools" ELSE ""
    /\ pubPc' = "prepareArgs"
    /\ UNCHANGED <<platform, pubOpts, crossArgs, crossLibs, stdout, stderr, pubResult,
                   statusLog, buildExit, upxCalls, upxSpawns, pkgCalls, upxOutcome,
                   pkgOutcome>>
    /\ UNCHANGED <<envVars, syncVars, histVars, execVars, hVars, fnVars>>

\* prepareCrossCompileArgs resolves: lines 99-160.  For a Windows target it
\* returns what getWindowsCrossCompileArgs returned (lines 278-296); for a Linux
\* target the Zig argument builder returns or throws (lines 264-275).
PrepareArgsReturn ==
    /\ pubPc = "prepareArgs"
    /\ LET target == getCrossCompileTarget(pubOpts.runtime) IN
       IF target = "windows"
       THEN \E in \in XwinInputs :
            LET result == WindowsCrossCompileArgs(in, platform) IN
            /\ in.runtime = pubOpts.runtime
            /\ crossArgs' = result.success
            /\ crossLibs' = IF in.libs = {} THEN "none" ELSE "some"
            /\ crossCompileWarning' = IF result.success THEN crossCompileWarning
                                      ELSE result.error
       ELSE \E ok \in BOOLEAN :
            /\ target # "linux" => ok
            /\ crossArgs' = (ok /\ target = "linux")
            /\ crossLibs' = "n/a"
            /\ crossCompileWarning' = IF ok THEN crossCompileWarning ELSE "setup failed"
    /\ SpawnBuild
    /\ UNCHANGED <<platform, pubOpts, stdout, stderr, pubResult, buildExit,
                   upxCalls, upxSpawns, pkgCalls, upxOutcome, pkgOutcome>>
    /\ UNCHANGED <<envVars, syncVars, histVars, execVars, hVars, fnVars>>

\* Faulty variant: a failed build reports stdout only
ErrorText_stdoutOnly(so, se) == so

\* line 236: stderr || stdout
ErrorText(so, se) == IF se # "" THEN se ELSE so

\* Faulty variant: the package path is taken from a failed packaging result too
MacosPackagePath_always(success) == "package"

\* lines 211-216: macosPackagePath is set only when packaging succeeded
MacosPackagePath(success) == IF success THEN "package" ELSE ""

\* line 225: macosPackagePath || publishDir
OutputPath(macosPackagePath) ==
    IF macosPackagePath # "" THEN macosPackagePath ELSE "publishDir"

\* Faulty variant: every target is handed to the compressor
isUPXSupported_any(runtime) == TRUE

\* line 183
isUPXSupported(runtime) ==
    StartsWith(runtime, "linux-") \/ StartsWith(runtime, "win-")

PublishOk(path) ==
    [done |-> TRUE, success |-> TRUE, outputPath |-> path, error |-> "",
     crossCompileWarning |-> crossCompileWarning]

PublishFailed(err) ==
    [done |-> TRUE, success |-> FALSE, outputPath |-> "publishDir", error |-> err,
     crossCompileWarning |-> crossCompileWarning]

\* lines 191-228: the macOS packaging block, up to `await packageForMacOS` or to
\* the resolve; log is the status log so far, tree the publish directory
Packaging(log, tree) ==
    IF isMacOS /\ StartsWith(pubOpts.runtime, "osx-")
    THEN \E macosEnabled \in BOOLEAN :
            IF macosEnabled
            THEN /\ statusLog' = Append(log, "package")
                 /\ IF tree[AssemblyName].ok
                    THEN /\ pkgCalls' = pkgCalls + 1
                         /\ pubPc' = "package"
                         /\ UNCHANGED <<pubResult, pkgOutcome>>
                    ELSE /\ pubResult' = Resolved(pubResult, PublishOk(OutputPath("")))
                         /\ pubPc' = "done"
                         /\ pkgOutcome' = "notFound"
                         /\ UNCHANGED pkgCalls
            ELSE /\ statusLog' = log
                 /\ pubResult' = Resolved(pubResult, PublishOk(OutputPath("")))
                 /\ pubPc' = "done"
                 /\ UNCHANGED <<pkgCalls, pkgOutcome>>
    ELSE /\ statusLog' = log
         /\ pubResult' = Resolved(pubResult, PublishOk(OutputPath("")))
         /\ pubPc' = "done"
         /\ UNCHANGED <<pkgCalls, pkgOutcome>>

\* text arrives on the build's stdout: lines 165-169
BuildStdout ==
    /\ pubPc = "build"
    /\ stdout = ""
    /\ stdout' = "text"
    /\ UNCHANGED <<platform, pubPc, pubOpts, crossCompileWarning, crossArgs, crossLibs, stderr,
                   pubResult, statusLog, buildExit, upxCalls, upxSpawns, pkgCalls,
                   upxOutcome, pkgOutcome>>
    /\ UNCHANGED <<envVars, syncVars, histVars, execVars, hVars, fnVars>>

\* text arrives on the build's stderr: lines 171-175
BuildStderr ==
    /\ pubPc = "build"
    /\ stderr = ""
    /\ stderr' = "errors"
    /\ UNCHANGED <<platform, pubPc, pubOpts, crossCompileWarning, crossArgs, crossLibs, stdout,
                   pubResult, statusLog, buildExit, upxCalls, upxSpawns, pkgCalls,
                   upxOutcome, pkgOutcome>>
    /\ UNCHANGED <<envVars, syncVars, histVars, execVars, hVars, fnVars>>

\* the build subprocess closes: lines 177-240.  On code 0 the build has written
\* the publish directory; compressWithUpx (lines 323-341) runs up to its spawn.
BuildClose ==
    /\ pubPc = "build"
    /\ \E code \in {0, 1} :
        IF code = 0
        THEN \E tree \in BuildOutputs :
            /\ buildExit' = "exit0"
            /\ local' = tree
            /\ IF pubOpts.upxEnabled /\ isUPXSupported(pubOpts.runtime)
               THEN /\ upxCalls' = upxCalls + 1
                    /\ \E readdirOk \in BOOLEAN :
                        IF ~readdirOk
                        THEN \* readdirSync throws inside the async close handler
                             /\ pubPc' = "stuck"
                             /\ statusLog' = Append(statusLog, "upx")
                             /\ upxOutcome' = "readdirThrew"
                             /\ UNCHANGED <<pubResult, upxSpawns, pkgCalls, pkgOutcome>>
                        ELSE IF tree[AssemblyName].ok
                        THEN /\ pubPc' = "upx"
                             /\ statusLog' = Append(statusLog, "upx")
                             /\ upxSpawns' = upxSpawns + 1
                             /\ UNCHANGED <<pubResult, pkgCalls, upxOutcome, pkgOutcome>>
                        ELSE /\ Packaging(Append(statusLog, "upx"), tree)
                             /\ upxOutcome' = "notFound"
                             /\ UNCHANGED upxSpawns
               ELSE /\ Packaging(statusLog, tree)
                    /\ UNCHANGED <<upxCalls, upxSpawns, upxOutcome>>
        ELSE /\ buildExit' = "exitNonZero"
             /\ pubResult' = Resolved(pubResult, PublishFailed(ErrorText(stdout, stderr)))
             /\ pubPc' = "done"
             /\ UNCHANGED <<local, statusLog, upxCalls, upxSpawns, pkgCalls,
                            upxOutcome, pkgOutcome>>
    /\ UNCHANGED <<platform, pubOpts, crossCompileWarning, crossArgs, crossLibs, stdout, stderr>>
    /\ UNCHANGED <<remote, serverClock, mkdirFaults, events, syncVars, histVars, execVars, hVars, fnVars>>

\* the build subprocess could not be spawned: the 'error' event, lines 242-251
BuildError ==
    /\ pubPc = "build"
    /\ buildExit' = "spawnError"
    /\ pubResult' = Resolved(pubResult, PublishFailed("spawn error"))
    /\ pubPc' = "errored"
    /\ UNCHANGED <<platform, pubOpts, crossCompileWarning, crossArgs, crossLibs, stdout, stderr,
                   statusLog, upxCalls, upxSpawns, pkgCalls, upxOutcome, pkgOutcome>>
    /\ UNCHANGED <<envVars, syncVars, histVars, execVars, hVars, fnVars>>

\* 'close' after 'error' carries a negative code: lines 229-239; the promise is
\* already settled
BuildCloseAfterError ==
    /\ pubPc = "errored"
    /\ pubResult' = Resolved(pubResult, PublishFailed(ErrorText(stdout, stderr)))
    /\ pubPc' = "done"
    /\ UNCHANGED <<platform, pubOpts, crossCompileWarning, crossArgs, crossLibs, stdout, stderr,
                   statusLog, buildExit, upxCalls, upxSpawns, pkgCalls, upxOutcome,
                   pkgOutcome>>
    /\ UNCHANGED <<envVars, syncVars, histVars, execVars, hVars, fnVars>>

\* the upx subprocess closes or cannot be spawned: lines 346-357, then 191-228.
\* A successful compression rewrites the executable.
UpxReturn ==
    /\ pubPc = "upx"
    /\ \E outcome \in {"exit0", "exitNonZero", "spawnError"} :
        LET tree == IF outcome = "exit0"
                    THEN [local EXCEPT ![AssemblyName].size = 1]
                    ELSE local
        IN /\ local' = tree
           /\ upxOutcome' = outcome
           /\ Packaging(statusLog, tree)
    /\ UNCHANGED <<platform, pubOpts, crossCompileWarning, crossArgs, crossLibs, stdout, stderr,
                   buildExit, upxCalls, upxSpawns>>
    /\ UNCHANGED <<remote, serverClock, mkdirFaults, events, syncVars, histVars, execVars, hVars, fnVars>>

\* packageForMacOS resolves: lines 210-228
PackageReturn ==
    /\ pubPc = "package"
    /\ \E success \in BOOLEAN :
        /\ pkgOutcome' = IF success THEN "ok" ELSE "failed"
        /\ pubResult' = Resolved(pubResult,
                            PublishOk(OutputPath(MacosPackagePath(success))))
    /\ pubPc' = "done"
    /\ UNCHANGED <<platform, pubOpts, crossCompileWarning, crossArgs, crossLibs, stdout, stderr,
                   statusLog, buildExit, upxCalls, upxSpawns, pkgCalls, upxOutcome>>
    /\ UNCHANGED <<envVars, syncVars, histVars, execVars, hVars, fnVars>>

(* --------------------------- executeRemote() -------------------------- *)
NoExecResult == [done |-> FALSE, success |-> FALSE, error |-> ""]
ExecFailed(err) == [done |-> TRUE, success |-> FALSE, error |-> err]

\* exit codes a remote command's stream can close with
ExitCodes == {0, 1, 2}
\* the 'close' event of the stream, as recorded in execEvents
CloseEvent(code) == "close:" \o ToString(code)

\* lines 321-327: the result the 'close' handler resolves with
ExitResult(code) ==
    IF code = 0 THEN [done |-> TRUE, success |-> TRUE, error |-> ""]
    ELSE ExecFailed("Exit code: " \o ToString(code))

\* executeRemote(config, assemblyName): lines 280-354 up to the first event
ExecCall(keyOk) ==
    /\ execPc \in {"idle", "done", "closed"}
    /\ execRuns' = 0
    /\ IF keyOk
       THEN /\ execPc' = "connecting"
            /\ execResult' = NoExecResult
            /\ execEvents' = <<"connect">>
       ELSE /\ execPc' = "done"
            /\ execResult' = ExecFailed("Private key not found")
            /\ execEvents' = <<>>

\* 'ready': lines 299-310, the command is expanded and client.exec is called
ExecReady ==
    /\ execPc = "connecting"
    /\ msg.host
    /\ execRuns' = execRuns + 1
    /\ execPc' = "exec"
    /\ execEvents' = Append(execEvents, "exec")
    /\ UNCHANGED execResult
    /\ UNCHANGED <<envVars, syncVars, histVars, pubVars, hVars, fnVars>>

\* the client's 'error' event, or connect() throwing: lines 344-353.  The
\* event can arrive before 'ready', while the command runs (its stream still
\* closes afterwards) and after the stream has closed.
ExecError ==
    /\ execPc \in {"connecting", "exec", "running", "closed"}
    /\ "error" \notin Range(execEvents)
    /\ execResult' = Resolved(execResult, ExecFailed("ssh error"))
    /\ execPc' = IF execPc = "running" THEN "running" ELSE "done"
    /\ execEvents' = Append(execEvents, "error")
    /\ UNCHANGED execRuns
    /\ UNCHANGED <<envVars, syncVars, histVars, pubVars, hVars, fnVars>>

\* the callback of client.exec: lines 310-341
ExecCallback ==
    /\ execPc = "exec"
    /\ \E err \in BOOLEAN :
        IF err
        THEN /\ execResult' = Resolved(execResult, ExecFailed("exec error"))
             /\ execPc' = "done"
             /\ execEvents' = Append(execEvents, "execError")
        ELSE /\ execPc' = "running"
             /\ execEvents' = Append(execEvents, "stream")
             /\ UNCHANGED execResult
    /\ UNCHANGED execRuns
    /\ UNCHANGED <<envVars, syncVars, histVars, pubVars, hVars, fnVars>>

\* the stream's 'close' event: lines 319-328
StreamClose ==
    /\ execPc = "running"
    /\ \E code \in ExitCodes :
        /\ execResult' = Resolved(execResult, ExitResult(code))
        /\ execEvents' = Append(execEvents, CloseEvent(code))
    /\ execPc' = IF "error" \in Range(execEvents) THEN "done" ELSE "closed"
    /\ UNCHANGED execRuns
    /\ UNCHANGED <<envVars, syncVars, histVars, pubVars, hVars, fnVars>>

(* --------------------------- _handleDeploy() -------------------------- *)
\* the connection fields of the message: authType with the state of what it needs
Conns == {"key", "keyMissing", "password", "noPassword"}
Messages == [deployTarget : {"local", "server"}, cleanDestination : BOOLEAN,
             runtime : Runtimes, publishAot : BOOLEAN, conn : Conns,
             host : BOOLEAN, incrementalUpload : BOOLEAN]
NoMessage == [deployTarget |-> "server", cleanDestination |-> FALSE,
              runtime |-> "linux-x64", publishAot |-> FALSE, conn |-> "key",
              host |-> TRUE, incrementalUpload |-> FALSE]
NoCalls == [publish |-> 0, deploy |-> 0, executeRemote |-> 0, clean |-> 0]

KeyOk == msg.conn # "keyMissing"

\* Faulty variant: the upload starts although the publish failed
HandleAfterPublish_ignoreFailure ==
    /\ hPc = "publish"
    /\ pubResult.done
    /\ posted' = Append(posted, "status:upload")
    /\ calls' = [calls EXCEPT !.deploy = @ + 1]
    /\ DeployCall([incremental |-> msg.incrementalUpload], KeyOk)
    /\ hPc' = "upload"
    /\ stdout' = "" /\ stderr' = ""
    /\ UNCHANGED <<platform, pubPc, pubOpts, crossCompileWarning, crossArgs, crossLibs, pubResult,
                   statusLog, buildExit, upxCalls, upxSpawns, pkgCalls, upxOutcome,
                   pkgOutcome>>
    /\ UNCHANGED <<fnVars, msg, envVars, histVars, execVars>>

\* Faulty variant: every failure is reported with the same message
HandleAfterDeploy_sameMessage ==
    /\ hPc = "upload"
    /\ syncResult.done
    /\ IF ~syncResult.success
       THEN /\ posted' = Append(posted, "error:publish")
            /\ hPc' = "done"
            /\ UNCHANGED <<calls, execVars>>
       ELSE /\ posted' = Append(posted, "status:start")
            /\ calls' = [calls EXCEPT !.executeRemote = @ + 1]
            /\ ExecCall(KeyOk)
            /\ hPc' = "start"
    /\ UNCHANGED <<fnVars, msg, envVars, syncVars, histVars, pubVars>>

\* Faulty variant: a local deploy goes on to the upload like a server deploy
HandleAfterPublish_alwaysServer ==
    /\ hPc = "publish"
    /\ pubResult.done
    /\ IF ~pubResult.success
       THEN /\ posted' = Append(posted, "error:publish")
            /\ hPc' = "done"
            /\ UNCHANGED <<calls, syncVars>>
       ELSE /\ posted' = Append(posted, "status:upload")
            /\ calls' = [calls EXCEPT !.deploy = @ + 1]
            /\ DeployCall([incremental |-> msg.incrementalUpload], KeyOk)
            /\ hPc' = "upload"
    /\ stdout' = "" /\ stderr' = ""
    /\ UNCHANGED <<platform, pubPc, pubOpts, crossCompileWarning, crossArgs, crossLibs, pubResult,
                   statusLog, buildExit, upxCalls, upxSpawns, pkgCalls, upxOutcome,
                   pkgOutcome>>
    /\ UNCHANGED <<fnVars, msg, envVars, histVars, execVars>>

\* Faulty variant: the output directory is cleaned for every deploy target
CleanRequested_anyTarget(m) == m.cleanDestination

\* lines 224-232: the clean is asked for in local mode with the flag set
CleanRequested(m) == m.deployTarget = "local" /\ m.cleanDestination

\* line 234, fs.existsSync(publishDir): the output directory holds something
DirExists(tree) == \E f \in Files : tree[f].ok

\* fs.rmSync(publishDir, {recursive: true}), line 236: nothing is left
EmptyDir == [f \in Files |-> NoStat]

\* the 'deploy' message arrives: lines 211-294, up to publish()'s first await
HandleDeploy ==
    /\ hPc = "idle"
    /\ \E projectFound \in BOOLEAN :
        IF ~projectFound
        THEN /\ posted' = Append(posted, "error:noProject")
             /\ hPc' = "done"
             /\ UNCHANGED <<calls, local, pubVars>>
        ELSE \E rmOk \in BOOLEAN, upxEnabled \in BOOLEAN :
             LET clean == CleanRequested(msg) /\ DirExists(local)
             IN
             /\ local' = IF clean /\ rmOk THEN EmptyDir ELSE local
             /\ calls' = [calls EXCEPT !.publish = @ + 1,
                                       !.clean = IF clean THEN @ + 1 ELSE @]
             /\ posted' = Append(posted, "status:publish")
             /\ PublishCall([runtime |-> msg.runtime, publishAot |-> msg.publishAot,
                             upxEnabled |-> upxEnabled, crossCompileEnabled |-> TRUE])
             /\ hPc' = "publish"
             /\ UNCHANGED platform
    /\ UNCHANGED <<fnVars, msg, remote, serverClock, mkdirFaults, events, syncVars, histVars, execVars>>

\* publish() has resolved: lines 296-331, up to deploy()'s first await
HandleAfterPublish ==
    /\ hPc = "publish"
    /\ pubResult.done
    /\ IF ~pubResult.success
       THEN /\ posted' = Append(posted, "error:publish")
            /\ hPc' = "done"
            /\ UNCHANGED <<calls, syncVars>>
       ELSE IF msg.deployTarget = "local"
       THEN /\ posted' = Append(posted, "success:publish")
            /\ hPc' = "done"
            /\ UNCHANGED <<calls, syncVars>>
       ELSE /\ posted' = Append(posted, "status:upload")
            /\ calls' = [calls EXCEPT !.deploy = @ + 1]
            /\ DeployCall([incremental |-> msg.incrementalUpload], KeyOk)
            /\ hPc' = "upload"
    \* the closure of publish() that captured the build's output is released
    /\ stdout' = "" /\ stderr' = ""
    /\ UNCHANGED <<platform, pubPc, pubOpts, crossCompileWarning, crossArgs, crossLibs, pubResult,
                   statusLog, buildExit, upxCalls, upxSpawns, pkgCalls, upxOutcome,
                   pkgOutcome>>
    /\ UNCHANGED <<fnVars, msg, envVars, histVars, execVars>>

\* deploy() has returned: lines 332-340, up to executeRemote()'s first event
HandleAfterDeploy ==
    /\ hPc = "upload"
    /\ syncResult.done
    /\ IF ~syncResult.success
       THEN /\ posted' = Append(posted, "error:upload")
            /\ hPc' = "done"
            /\ UNCHANGED <<calls, execVars>>
       ELSE /\ posted' = Append(posted, "status:start")
            /\ calls' = [calls EXCEPT !.executeRemote = @ + 1]
            /\ ExecCall(KeyOk)
            /\ hPc' = "start"
    /\ UNCHANGED <<fnVars, msg, envVars, syncVars, histVars, pubVars>>

\* executeRemote() has resolved: lines 341-346
HandleAfterExec ==
    /\ hPc = "start"
    /\ execResult.done
    /\ posted' = Append(posted, IF execResult.success THEN "success:deploy"
                                ELSE "error:start")
    /\ hPc' = "done"
    /\ UNCHANGED <<fnVars, msg, calls, envVars, syncVars, histVars, pubVars, execVars>>

(* ------------------------- webview: doDeploy() ------------------------ *)
\* the deploy form: the fields doDeploy() reads and the state of the checkbox
\* 'cleanDestination', which renderForm() puts on the local tab only
Forms ==
    {f \in [project : BOOLEAN, deployTarget : {"local", "server"},
            cleanDestination : BOOLEAN, runtime : Runtimes, publishAot : BOOLEAN,
            conn : Conns, host : BOOLEAN, incrementalUpload : BOOLEAN] :
        f.deployTarget = "server" => ~f.cleanDestination}
NoForm == [project |-> FALSE, deployTarget |-> "server", cleanDestination |-> FALSE,
           runtime |-> "linux-x64", publishAot |-> FALSE, conn |-> "key",
           host |-> FALSE, incrementalUpload |-> FALSE]

\* the object passed to vscode.postMessage, lines 962-983, as _handleDeploy reads
\* it: the object has no cleanDestination property, so message.cleanDestination
\* is undefined
DeployMessage(f) ==
    [deployTarget |-> f.deployTarget, cleanDestination |-> FALSE,
     runtime |-> f.runtime, publishAot |-> f.publishAot, conn |-> f.conn,
     host |-> f.host, incrementalUpload |-> f.incrementalUpload]

\* doDeploy(): lines 928-984
DoDeploy ==
    /\ webPc = "form"
    /\ IF ~form.project \/ (form.deployTarget = "server" /\ ~form.host)
       THEN webPc' = "rejected" /\ UNCHANGED msg
       ELSE webPc' = "sent" /\ msg' = DeployMessage(form)
    /\ UNCHANGED <<form, hPc, posted, calls, suVars, xwVars, tplVars, tcVars>>
    /\ UNCHANGED <<envVars, syncVars, histVars, pubVars, execVars>>

\* the extension host receives the message: line 53
ReceiveDeploy ==
    /\ webPc = "sent"
    /\ HandleDeploy

(* --------------------------- specifications --------------------------- *)
SyncIdle ==
    /\ syncPc = "idle"
    /\ syncCfg = [incremental |-> FALSE]
    /\ files = <<>>
    /\ filesToUpload = <<>>
    /\ idx = 1
    /\ skipped = 0
    /\ uploaded = 0
    /\ syncErr = ""
    /\ syncResult = NoResult
    /\ connectCalls = 0
    /\ endCalls = 0
    /\ chmodCalls = 0
    /\ putSet = {}
    /\ statErrors = FALSE
    /\ mkdirError = NoMkdirError
    /\ pre = NoPre
    /\ last = [ok |-> FALSE, inc |-> FALSE]
    /\ touched = {}
    /\ dirty = FALSE

PublishIdle ==
    /\ pubPc = "idle"
    /\ pubOpts = NoOptions
    /\ crossCompileWarning = ""
    /\ crossArgs = FALSE
    /\ crossLibs = "n/a"
    /\ pubResult = NoPublishResult
    /\ statusLog = <<>>
    /\ buildExit = "none"
    /\ upxCalls = 0
    /\ upxSpawns = 0
    /\ pkgCalls = 0
    /\ upxOutcome = "none"
    /\ pkgOutcome = "none"
    /\ stdout = ""
    /\ stderr = ""

ExecIdle ==
    /\ execPc = "idle"
    /\ execResult = NoExecResult
    /\ execRuns = 0
    /\ execEvents = <<>>

HandlerIdle ==
    /\ hPc = "idle"
    /\ posted = <<>>
    /\ calls = NoCalls

ShouldUploadIdle ==
    /\ suPc = "idle"
    /\ suLocal = NoStat
    /\ suRemote = [kind |-> "absent", stat |-> NoStat]
    /\ suResult = FALSE

XwinIdle ==
    /\ xwPc = "idle"
    /\ xwIn = NoXwinInput
    /\ xwOut = NoXwinResult

TemplateIdle ==
    /\ tplPc = "idle"
    /\ tplIn = NoTemplateInput
    /\ command = ""

ToolchainIdle ==
    /\ tcPc = "idle"
    /\ tcProbes = NoProbes
    /\ toolchain = NoToolchain

WebIdle ==
    /\ form = NoForm
    /\ webPc = "idle"

FnIdle == ShouldUploadIdle /\ XwinIdle /\ TemplateIdle /\ ToolchainIdle /\ WebIdle

\* a remote directory as an earlier deploy left it
PreviousDeploy == [f \in Files |-> [ok |-> TRUE, size |-> 2, mtime |-> 0]]

\* one deploy request of the sidebar, from the message to the terminal message
Init ==
    /\ platform \in Platforms
    /\ msg \in Messages
    /\ local \in {[f \in Files |-> NoStat], PreviousDeploy}
    /\ remote \in {[f \in Files |-> NoStat], PreviousDeploy}
    /\ serverClock = MaxClock
    /\ mkdirFaults = FALSE
    /\ events = 0
    /\ SyncIdle /\ PublishIdle /\ ExecIdle /\ HandlerIdle /\ FnIdle

Next ==
    \/ HandleDeploy \/ HandleAfterPublish \/ HandleAfterDeploy \/ HandleAfterExec
    \/ CheckToolsReturn \/ PrepareArgsReturn \/ BuildStdout \/ BuildStderr
    \/ BuildClose \/ BuildError
    \/ BuildCloseAfterError \/ UpxReturn \/ PackageReturn
    \/ ConnectReturn \/ MkdirRootReturn \/ StatReturn \/ MkdirParentReturn
    \/ PutReturn \/ ChmodReturn \/ EndReturn \/ TelegramOkReturn
    \/ TelegramDocReturn \/ TelegramFailReturn \/ CatchEndReturn
    \/ ExecReady \/ ExecError \/ ExecCallback \/ StreamClose

Spec == Init /\ [][Next]_vars

\* the user fills in the deploy form and presses the deploy button
InitWebview ==
    /\ form \in Forms
    /\ webPc = "form"
    /\ platform \in Platforms
    /\ msg = NoMessage
    /\ local \in {[f \in Files |-> NoStat], PreviousDeploy}
    /\ remote = [f \in Files |-> NoStat]
    /\ serverClock = MaxClock
    /\ mkdirFaults = FALSE
    /\ events = 0
    /\ SyncIdle /\ PublishIdle /\ ExecIdle /\ HandlerIdle
    /\ ShouldUploadIdle /\ XwinIdle /\ TemplateIdle /\ ToolchainIdle

NextWebview == DoDeploy \/ ReceiveDeploy

SpecWebview == InitWebview /\ [][NextWebview]_vars

\* the same request when every spawned subprocess eventually exits, every remote
\* operation eventually returns or fails and every pending callback eventually
\* runs: a step that can be taken is eventually taken
SpecFair == Init /\ [][Next]_vars /\ WF_vars(Next)

\* a sequence of deploy() calls on a publish directory that is edited in between
InitSync ==
    /\ local \in [Files -> LocalStats]
    /\ \A f \in Files : local[f].size = 1 /\ local[f].mtime \in {0, MsPerSec}
    /\ remote = [f \in Files |-> NoStat]
    /\ serverClock \in 0..MaxClock
    /\ mkdirFaults = FALSE
    /\ events = 0
    /\ platform = "linux"
    /\ msg = NoMessage
    /\ SyncIdle /\ PublishIdle /\ ExecIdle /\ HandlerIdle /\ FnIdle

NextSync ==
    \/ SyncRequest
    \/ ConnectReturn \/ MkdirRootReturn \/ StatReturn \/ MkdirParentReturn
    \/ PutReturn \/ ChmodReturn \/ EndReturn \/ TelegramOkReturn
    \/ TelegramDocReturn \/ TelegramFailReturn \/ CatchEndReturn
    \/ Tick \/ TouchFile \/ OtherEdit

SpecSync == InitSync /\ [][NextSync]_vars

\* the same sequence of deploy() calls against a host that rejects mkdir calls
InitMkdir ==
    /\ local \in [Files -> LocalStats]
    /\ \A f \in Files : local[f].size = 1 /\ local[f].mtime \in {0, MsPerSec}
    /\ remote = [f \in Files |-> NoStat]
    /\ serverClock = 0
    /\ mkdirFaults = TRUE
    /\ events = 0
    /\ platform = "linux"
    /\ msg = NoMessage
    /\ SyncIdle /\ PublishIdle /\ ExecIdle /\ HandlerIdle /\ FnIdle

SpecMkdir == InitMkdir /\ [][NextSync]_vars

\* shouldUploadFile on every pair of a local file and a remote answer
InitShouldUpload ==
    /\ suPc = "idle"
    /\ suLocal \in LocalStats \cup {NoStat}
    /\ suRemote \in RemoteAnswers
    /\ suResult = FALSE
    /\ local = [f \in Files |-> NoStat]
    /\ remote = [f \in Files |-> NoStat]
    /\ serverClock = 0
    /\ mkdirFaults = FALSE
    /\ events = 0
    /\ platform = "linux"
    /\ msg = NoMessage
    /\ SyncIdle /\ PublishIdle /\ ExecIdle /\ HandlerIdle /\ XwinIdle /\ TemplateIdle
    /\ ToolchainIdle /\ WebIdle

NextShouldUpload == ShouldUploadCall \/ ShouldUploadStatReturn

SpecShouldUpload == InitShouldUpload /\ [][NextShouldUpload]_vars

\* executeRemote() called directly, for every connection configuration
ExecRequest ==
    /\ events < MaxEvents
    /\ events' = events + 1
    /\ ExecCall(KeyOk)
    /\ calls' = [calls EXCEPT !.executeRemote = @ + 1]
    /\ UNCHANGED <<local, remote, serverClock, mkdirFaults, msg, hPc, posted>>
    /\ UNCHANGED <<syncVars, histVars, pubVars, fnVars>>

InitExec ==
    /\ msg \in {[NoMessage EXCEPT !.host = h, !.conn = c] : h \in BOOLEAN, c \in Conns}
    /\ local = [f \in Files |-> NoStat]
    /\ remote = [f \in Files |-> NoStat]
    /\ serverClock = 0
    /\ mkdirFaults = FALSE
    /\ events = 0
    /\ platform = "linux"
    /\ SyncIdle /\ PublishIdle /\ ExecIdle /\ HandlerIdle /\ FnIdle

NextExec ==
    ExecRequest \/ ExecReady \/ ExecError \/ ExecCallback \/ StreamClose

SpecExec == InitExec /\ [][NextExec]_vars

\* getWindowsCrossCompileArgs on every host, runtime and state of the SDK cache
InitXwin ==
    /\ xwIn \in XwinInputs
    /\ xwPc = "idle"
    /\ xwOut = NoXwinResult
    /\ platform \in Platforms
    /\ local = [f \in Files |-> NoStat]
    /\ remote = [f \in Files |-> NoStat]
    /\ serverClock = 0
    /\ mkdirFaults = FALSE
    /\ events = 0
    /\ msg = NoMessage
    /\ SyncIdle /\ PublishIdle /\ ExecIdle /\ HandlerIdle /\ ShouldUploadIdle /\ TemplateIdle
    /\ ToolchainIdle /\ WebIdle

NextXwin == XwinCall \/ XwinLldReturn \/ XwinLldPathReturn

SpecXwin == InitXwin /\ [][NextXwin]_vars

\* the command built from every configured template
InitTemplate ==
    /\ tplIn \in TemplateInputs
    /\ tplPc = "idle"
    /\ command = ""
    /\ platform = "linux"
    /\ local = [f \in Files |-> NoStat]
    /\ remote = [f \in Files |-> NoStat]
    /\ serverClock = 0
    /\ mkdirFaults = FALSE
    /\ events = 0
    /\ msg = NoMessage
    /\ SyncIdle /\ PublishIdle /\ ExecIdle /\ HandlerIdle /\ ShouldUploadIdle /\ XwinIdle
    /\ ToolchainIdle /\ WebIdle

NextTemplate == ExpandCall

SpecTemplate == InitTemplate /\ [][NextTemplate]_vars

\* detectToolchain under every combination of probe outcomes
InitToolchain ==
    /\ platform \in Platforms
    /\ local = [f \in Files |-> NoStat]
    /\ remote = [f \in Files |-> NoStat]
    /\ serverClock = 0
    /\ mkdirFaults = FALSE
    /\ events = 0
    /\ msg = NoMessage
    /\ SyncIdle /\ PublishIdle /\ ExecIdle /\ HandlerIdle /\ FnIdle

NextToolchain == DetectCall \/ DetectChecksReturn \/ DetectSdkReturn

SpecToolchain == InitToolchain /\ [][NextToolchain]_vars

(* ------------------------------- claims ------------------------------- *)
\* the build subprocess was spawned by the running publish()
BuildStarted == "compile" \in Range(statusLog)

\* C1: once the build subprocess has exited with a non-zero code, publish has
\* resolved with success = false and error = stderr, or stdout when stderr is
\* empty; compressWithUpx and packageForMacOS were not called, no upx process
\* was spawned, and neither 'upx' nor 'package' was reported.
C1_FailFast ==
    buildExit = "exitNonZero" =>
        /\ pubResult.done
        /\ ~pubResult.success
        /\ hPc = "publish" =>
              pubResult.error = (IF stderr = "" THEN stdout ELSE stderr)
        /\ upxCalls = 0 /\ upxSpawns = 0 /\ pkgCalls = 0
        /\ statusLog = <<"compile">>

\* a failed build with compression enabled that wrote to stdout only
C1_Witness ==
    /\ buildExit = "exitNonZero"
    /\ hPc = "publish"
    /\ pubOpts.upxEnabled
    /\ stderr = "" /\ stdout # ""
    /\ pubResult.error = stdout

\* C2: the steps of a server deploy run in the order publish, upload, start.
\* deploy() is entered only after publish resolved with success, the build
\* having exited; executeRemote() is entered only after deploy() returned
\* success with every candidate put, the chmod done and the session ended;
\* files are put only while deploy() runs; no step is started twice.
C2_StepOrder ==
    /\ syncPc # "idle" =>
          /\ pubResult.done /\ pubResult.success
          /\ buildExit = "exit0"
          /\ pubPc = "done"
    /\ execPc # "idle" =>
          /\ syncPc = "done" /\ syncResult.success
          /\ uploaded = Len(filesToUpload)
          /\ putSet = Range(filesToUpload)
          /\ chmodCalls = 1
          /\ endCalls >= 1
    /\ execRuns > 0 => hPc \in {"start", "done"}
    /\ calls.publish <= 1 /\ calls.deploy <= 1 /\ calls.executeRemote <= 1
    /\ connectCalls <= 1 /\ execRuns <= 1

\* the start command runs after both files were uploaded
C2_Witness ==
    /\ execPc = "running"
    /\ putSet = Files
    /\ calls = [publish |-> 1, deploy |-> 1, executeRemote |-> 1, clean |-> 0]

\* floor(ms / 1000) > sec, stated without the division
NewerBySeconds(ms, sec) == \E q \in 0..MaxSec :
    /\ q * MsPerSec <= ms
    /\ ms < (q + 1) * MsPerSec
    /\ q > sec

\* C3: for a local file whose stat succeeded, shouldUploadFile returns true
\* exactly when the remote stat failed (file absent or any other error), or the
\* sizes differ, or the local mtime in whole seconds is strictly greater than
\* the remote modifyTime; otherwise false.
C3_UploadDecision ==
    (suPc = "done" /\ suLocal.ok) =>
        (suResult <=> \/ suRemote.kind # "ok"
                      \/ suLocal.size # suRemote.stat.size
                      \/ NewerBySeconds(suLocal.mtime, suRemote.stat.mtime))

\* same modification second, different size: uploaded
C3_Witness ==
    /\ suPc = "done"
    /\ suLocal.ok
    /\ suRemote.kind = "ok"
    /\ suLocal.size # suRemote.stat.size
    /\ suLocal.mtime = suRemote.stat.mtime * MsPerSec
    /\ suResult

\* C4 (as claimed): an incremental sync that succeeds after a successful
\* incremental sync, with no local change in between and every remote stat
\* answered, uploads no file and skips every local file.
C4_Idempotent ==
    (/\ syncResult.done /\ syncResult.success
     /\ syncCfg.incremental
     /\ pre.ok /\ pre.inc
     /\ pre.touched = {} /\ ~pre.dirty
     /\ ~statErrors)
    => (putSet = {} /\ skipped = Len(files))

\* C5 (as claimed): an incremental sync that succeeds after a successful sync,
\* with the mtime of exactly one local file strictly increased in between and
\* nothing else changed, uploads that file and no other.
C5_Freshness ==
    (/\ syncResult.done /\ syncResult.success
     /\ syncCfg.incremental
     /\ pre.ok
     /\ Cardinality(pre.touched) = 1 /\ ~pre.dirty
     /\ ~statErrors)
    => putSet = pre.touched

\* the candidate list of the running deploy() is final
CandidatesKnown ==
    \/ syncPc \in {"mkdirParent", "put", "chmod", "end", "tgOk", "tgDoc"}
    \/ syncPc = "done" /\ syncResult.success

\* C6: a local file with no remote counterpart when deploy() starts is among
\* the candidates, incremental or not, and has been put when deploy() returns
\* success; with incremental off the candidates are all enumerated files, none
\* is skipped, and all have been put when deploy() returns success.
C6_AbsentUploaded ==
    /\ CandidatesKnown => pre.absent \subseteq Range(filesToUpload)
    /\ (syncPc = "done" /\ syncResult.success) => pre.absent \subseteq putSet
    /\ (CandidatesKnown /\ ~syncCfg.incremental) =>
          (filesToUpload = files /\ skipped = 0)
    /\ (syncPc = "done" /\ syncResult.success /\ ~syncCfg.incremental) =>
          putSet = Range(files)

\* an incremental sync that skipped one file and uploaded the absent one
C6_Witness ==
    /\ syncPc = "done" /\ syncResult.success
    /\ syncCfg.incremental
    /\ pre.absent # {}
    /\ skipped > 0
    /\ putSet = pre.absent

\* C7 (as claimed): when deploy() has returned, sftp.end() was called exactly
\* once.
C7_EndOnce == syncResult.done => endCalls = 1

\* C8: once the build has exited with code 0, a resolved publish has
\* success = true; outputPath is the package path exactly when packaging
\* succeeded and the publish directory otherwise; a compressor that exits
\* non-zero, cannot be spawned, or finds no executable leaves publish resolved.
C8_NonFatal ==
    /\ (buildExit = "exit0" /\ pubResult.done) =>
          /\ pubResult.success
          /\ pubResult.outputPath =
                (IF pkgOutcome = "ok" THEN "package" ELSE "publishDir")
    /\ (upxOutcome \in {"exitNonZero", "spawnError", "notFound"}
          /\ ~(isMacOS /\ StartsWith(pubOpts.runtime, "osx-")))
          => (pubResult.done /\ pubResult.success)

\* the compressor failed and publish succeeded with the publish directory
C8_Witness ==
    /\ upxOutcome = "exitNonZero"
    /\ pubResult.done /\ pubResult.success
    /\ pubResult.outputPath = "publishDir"

TerminalMessages == {"error:noProject", "error:publish", "error:upload",
                     "error:start", "success:publish", "success:deploy"}
Terminals == {i \in 1..Len(posted) : posted[i] \in TerminalMessages}

\* C9: at most one terminal message is ever posted; when the handler has ended
\* there is exactly one and it is the last message; a failed publish ends with
\* the publish-failed message, a failed sync with the upload-failed message, a
\* failed remote command with the start-failed message (after a successful
\* sync), and a deploy with a failed step never posts a success message.
C9_TerminalMessage ==
    /\ Cardinality(Terminals) <= 1
    /\ hPc # "done" => Terminals = {}
    /\ hPc = "done" =>
          /\ Terminals = {Len(posted)}
          /\ (pubResult.done /\ ~pubResult.success)
                => posted[Len(posted)] = "error:publish"
          /\ (syncResult.done /\ ~syncResult.success)
                => posted[Len(posted)] = "error:upload"
          /\ (execResult.done /\ ~execResult.success)
                => (posted[Len(posted)] = "error:start" /\ syncResult.success)
          /\ posted[Len(posted)] \in {"success:publish", "success:deploy"}
                => /\ pubResult.success
                   /\ hPc = "done"
                   /\ syncResult.done => syncResult.success
                   /\ execResult.done => execResult.success

\* the remote command failed after a successful upload
C9_Witness ==
    /\ hPc = "done"
    /\ syncResult.done /\ syncResult.success
    /\ execResult.done /\ ~execResult.success
    /\ posted = <<"status:publish", "status:upload", "status:start", "error:start">>

\* the connection fields of a server deploy are unusable
ConfigError ==
    /\ msg.deployTarget = "server"
    /\ (msg.conn \in {"keyMissing", "noPassword"} \/ ~msg.host)

\* C10 (as claimed): with a configuration error in a server deploy, no build
\* subprocess is started, no connection is attempted and nothing is written.
C10_ConfigErrorFirst ==
    ConfigError =>
        /\ ~BuildStarted
        /\ buildExit = "none"
        /\ connectCalls = 0
        /\ execPc \in {"idle", "done"}

\* the events of execEvents that call resolve
Deciding == {"error", "execError"} \cup {CloseEvent(c) : c \in ExitCodes}
\* the first event of the log that called resolve ("" when none did)
FirstDeciding(log) ==
    IF \E i \in 1..Len(log) : log[i] \in Deciding
    THEN log[CHOOSE i \in 1..Len(log) :
                /\ log[i] \in Deciding
                /\ \A j \in 1..(i - 1) : log[j] \notin Deciding]
    ELSE ""
\* the log up to and including the first event that called resolve
UntilDecided(log) ==
    IF FirstDeciding(log) = "" THEN log
    ELSE SubSeq(log, 1, CHOOSE i \in 1..Len(log) :
                /\ log[i] \in Deciding
                /\ \A j \in 1..(i - 1) : log[j] \notin Deciding)

\* the result of executeRemote, read from what happened
C11_Outcome ==
    /\ execResult.done <=>
          (execEvents = <<>> /\ execPc = "done") \/ FirstDeciding(execEvents) # ""
    /\ execResult.done =>
          /\ execResult.success <=> FirstDeciding(execEvents) = CloseEvent(0)
          /\ \A c \in ExitCodes \ {0} :
                FirstDeciding(execEvents) = CloseEvent(c) =>
                    execResult.error = "Exit code: " \o ToString(c)
          \* missing key file: nothing was connected or run
          /\ execEvents = <<>> =>
                (execResult.error = "Private key not found" /\ execRuns = 0)
          \* an error before 'ready': client.exec was never called
          /\ (FirstDeciding(execEvents) = "error"
                /\ "exec" \notin Range(UntilDecided(execEvents)))
                => (execRuns = 0 /\ "stream" \notin Range(execEvents))
          \* exec error: no stream was opened
          /\ FirstDeciding(execEvents) = "execError" =>
                "stream" \notin Range(execEvents)

\* C11: executeRemote resolves with success exactly when the event that decides
\* the result is the stream's close with exit code 0; a close with a non-zero
\* code gives failure with that code in the error; a missing key file, an
\* error before 'ready' or an exec error gives failure with no command stream
\* opened; once resolved, the result of a call is never changed by a later event.
C11_ExecResult ==
    /\ []C11_Outcome
    /\ [][(execResult.done /\ calls'.executeRemote = calls.executeRemote)
            => execResult' = execResult]_vars

\* an error arrived while the command ran, then its stream closed with code 0
C11_Witness ==
    /\ execEvents = <<"connect", "exec", "stream", "error", CloseEvent(0)>>
    /\ execResult.done /\ ~execResult.success
    /\ execResult.error = "ssh error"

\* the library paths that exist on disk, in the order crt, um, ucrt
ExpectedLibPaths ==
    LET arch == getWindowsArch(xwIn.runtime)
        one(d) == IF d \in xwIn.libs THEN <<LibPath(d, arch)>> ELSE <<>>
    IN one("crt") \o one("um") \o one("ucrt")

\* s1;s2;...;sn
SemicolonJoined(paths) ==
    IF Len(paths) = 0 THEN ""
    ELSE IF Len(paths) = 1 THEN paths[1]
    ELSE IF Len(paths) = 2 THEN paths[1] \o ";" \o paths[2]
    ELSE paths[1] \o ";" \o paths[2] \o ";" \o paths[3]

\* C12 (as claimed): when getWindowsCrossCompileArgs returns success, LIB is the
\* existing library paths in the order crt, um, ucrt joined with ';', on every
\* host platform and in every copy of the function.
C12_LibSeparator ==
    (xwOut.done /\ xwOut.success) =>
        /\ "LIB" \in xwOut.envKeys
        /\ xwOut.LIB = SemicolonJoined(ExpectedLibPaths)

\* C13: in a local-mode deploy, whatever its connection fields, deploy() and
\* executeRemote() are never called, no connection is opened and no file is
\* put; when the handler has ended after publish returned, it has posted the
\* publish status followed by exactly one terminal message, the publish
\* success or the publish failure.
C13_LocalOnly ==
    msg.deployTarget = "local" =>
        /\ calls.deploy = 0 /\ calls.executeRemote = 0
        /\ syncPc = "idle" /\ execPc = "idle"
        /\ connectCalls = 0 /\ execRuns = 0 /\ putSet = {}
        /\ hPc \in {"idle", "publish", "done"}
        /\ (hPc = "done" /\ pubResult.done) =>
              posted = <<"status:publish",
                         IF pubResult.success THEN "success:publish"
                         ELSE "error:publish">>

\* a local deploy that carries usable connection fields has ended with success
C13_Witness ==
    /\ msg.deployTarget = "local"
    /\ msg.conn = "key" /\ msg.host
    /\ hPc = "done"
    /\ posted = <<"status:publish", "success:publish">>

\* what the claim requires of one piece of the template
ExpectedPiece(piece, remotePath) ==
    CASE piece = "{app_name}" -> AssemblyName
      [] piece = "{remote_path}" -> PosixJoin(remotePath, AssemblyName)
      [] piece = "{app_path}" ->
            PosixJoin(remotePath, AssemblyName) \o "/" \o AssemblyName
      [] OTHER -> piece

\* the pieces of a template, each as the claim requires, one after another
RECURSIVE ExpectedCommand(_, _)
ExpectedCommand(pieces, remotePath) ==
    IF pieces = <<>> THEN ""
    ELSE ExpectedPiece(Head(pieces), remotePath)
         \o ExpectedCommand(Tail(pieces), remotePath)

\* C14: the command sent is the configured template (the default one when none
\* is configured) with every occurrence of {app_name}, {remote_path} and
\* {app_path} replaced by the assembly name, remotePath/assemblyName and
\* remotePath/assemblyName/assemblyName; every other piece, an unknown
\* placeholder included, is copied unchanged.
C14_TemplateExpansion ==
    tplPc = "done" =>
        command = ExpectedCommand(
                    IF tplIn.afterUploadCommand = <<>> THEN DefaultTemplate
                    ELSE tplIn.afterUploadCommand,
                    \* the remote path, a trailing slash normalised away
                    "/srv")

\* a placeholder occurring twice next to an unknown placeholder
C14_Witness ==
    /\ tplPc = "done"
    /\ tplIn.afterUploadCommand = <<"{app_path}", "{user}", "{app_path}">>
    /\ tplIn.remotePath = "/srv/"
    /\ command = "/srv/app/app{user}/srv/app/app"

\* no probe of the tool found it
NoProbeFound(p) ==
    /\ p.which # "path"
    /\ ~p.fallback \/ p.fallbackVersion = "fail"

\* C15: detectToolchain never rejects, whatever the probes do; when it has
\* returned, every field is a status and not an exception, and a tool none of
\* whose probes found it (no path printed, no usable fallback location, SDK
\* directory absent) is reported as not installed; a failing size query alone
\* leaves the SDK reported as installed.
C15_DetectNeverThrows ==
    /\ tcPc # "rejected"
    /\ tcPc \in {"sdk", "done"} =>
          /\ \A t \in {"zig", "lld", "xwin", "llvm"} : ~toolchain[t].threw
          /\ tcProbes.zig.which # "path" => ~toolchain.zig.installed
          /\ NoProbeFound(tcProbes.lld) => ~toolchain.lld.installed
          /\ NoProbeFound(tcProbes.xwin) => ~toolchain.xwin.installed
          /\ (tcProbes.llvm.which # "path" /\ ~tcProbes.llvm.fallback)
                => ~toolchain.llvm.installed
    /\ tcPc = "done" =>
          /\ ~toolchain.windowsSdk.threw
          /\ toolchain.windowsSdk.installed <=> tcProbes.sdk.exists

\* every probe failed and detectToolchain returned all tools as not installed
C15_Witness ==
    /\ tcPc = "done"
    /\ tcProbes = NoProbes
    /\ \A t \in DOMAIN toolchain : ~toolchain[t].installed /\ ~toolchain[t].threw

\* a condition publish() survives: a cross-compile tool was missing or the
\* setup failed, the compressor failed, or packaging failed
NonFatalCondition ==
    \/ crossCompileWarning # ""
    \/ upxOutcome \in {"exitNonZero", "spawnError"}
    \/ pkgOutcome = "failed"

\* C16 (as claimed): a successful publish during which a non-fatal condition
\* occurred returns a result with a non-empty warning.
C16_WarningAttached ==
    (pubResult.done /\ pubResult.success /\ NonFatalCondition)
        => pubResult.crossCompileWarning # ""

\* C17 (as claimed): when publish cross-compiles to Windows and none of the
\* library paths crt, um, ucrt exists under the SDK cache, the argument builder
\* has not returned success and publish does not resolve with success.
C17_MissingLibsFatal ==
    crossLibs = "none" =>
        /\ ~crossArgs
        /\ pubResult.done => ~pubResult.success

\* C18: a local-mode deploy with the clean-destination flag set deletes the
\* existing output directory whole before the build subprocess is started; when
\* the deletion fails the directory is left as it was and the deploy still goes
\* on to publish; no other deploy, and no server-mode deploy, deletes anything,
\* and nothing is deleted once publish has been called.
C18_CleanDestination ==
    /\ [][(hPc = "idle" /\ hPc' = "publish") =>
            IF msg.deployTarget = "local" /\ msg.cleanDestination /\ DirExists(local)
            THEN /\ calls'.clean = calls.clean + 1
                 /\ local' \in {EmptyDir, local}
                 /\ calls'.publish = calls.publish + 1
                 /\ pubPc' \in {"checkTools", "build"}
            ELSE /\ calls'.clean = calls.clean
                 /\ local' = local]_vars
    /\ [][calls'.clean # calls.clean =>
            /\ hPc = "idle" /\ pubPc = "idle"
            /\ "compile" \notin Range(statusLog)]_vars
    /\ [](msg.deployTarget = "server" => calls.clean = 0)

\* the directory was deleted and the build has been started on the empty directory
C18_Witness ==
    /\ msg.deployTarget = "local" /\ msg.cleanDestination
    /\ calls.clean = 1
    /\ local = EmptyDir
    /\ "compile" \in Range(statusLog)
    /\ buildExit = "none"

\* C19: the compressor is invoked only when compression is enabled, the build
\* exited 0 and the runtime starts with 'linux-' or 'win-'; for an 'osx-' runtime
\* it is never invoked nor spawned, and a build that exited 0 still resolves
\* publish with success.
C19_CompressorTargets ==
    /\ upxCalls > 0 =>
            /\ pubOpts.upxEnabled
            /\ buildExit = "exit0"
            /\ StartsWith(pubOpts.runtime, "linux-") \/ StartsWith(pubOpts.runtime, "win-")
    /\ upxSpawns <= upxCalls
    /\ StartsWith(pubOpts.runtime, "osx-") =>
            /\ upxCalls = 0
            /\ "upx" \notin Range(statusLog)
            /\ (buildExit = "exit0" => pubPc \in {"package", "done"})
            /\ (buildExit = "exit0" /\ pubResult.done) => pubResult.success

\* compression is enabled for a macOS target whose build exited 0: publish has
\* succeeded without the compressor
C19_Witness ==
    /\ pubOpts.upxEnabled
    /\ StartsWith(pubOpts.runtime, "osx-")
    /\ buildExit = "exit0"
    /\ pubResult.done /\ pubResult.success
    /\ upxCalls = 0

\* C20 (as claimed): once a mkdir of the remote root or of a file's remote
\* parent has failed with an error other than 'already exists', the sync puts no
\* further file and ends with success=false.
C20_MkdirAborts ==
    mkdirError.seen =>
        /\ syncPc \notin {"stat", "mkdirParent", "put", "chmod"}
        /\ uploaded = mkdirError.uploaded
        /\ syncResult.done => ~syncResult.success

\* the candidates before position n, which the loop has already put
PutBefore(n) == {filesToUpload[i] : i \in 1..(n - 1)}

\* the candidates keep the order of the enumeration
InEnumerationOrder ==
    \A i, j \in 1..Len(filesToUpload) :
        i < j => \E a, b \in 1..Len(files) :
                    a < b /\ files[a] = filesToUpload[i] /\ files[b] = filesToUpload[j]

\* C21: the candidates are put one at a time in enumeration order: while the
\* loop is at candidate idx exactly the candidates before it have been put; when
\* the put of candidate idx fails, the candidates before it have been put and are
\* on the remote host, no later candidate is put, and the sync ends with
\* success=false.
C21_SequentialUploads ==
    /\ InEnumerationOrder
    /\ syncPc \in {"mkdirParent", "put"} =>
            /\ idx \in 1..Len(filesToUpload)
            /\ putSet = PutBefore(idx)
            /\ uploaded = idx - 1
    /\ syncErr = "put failed" =>
            /\ syncPc \in {"tgFail", "catchEnd", "done"}
            /\ putSet = PutBefore(idx)
            /\ uploaded = idx - 1
            /\ \A f \in putSet : remote[f].ok
            /\ filesToUpload[idx] \notin putSet
            /\ syncResult.done => ~syncResult.success

\* the put of the second candidate failed after the first was uploaded, and the
\* sync has returned
C21_Witness ==
    /\ syncErr = "put failed"
    /\ idx = 2
    /\ Cardinality(putSet) = 1
    /\ syncResult.done /\ ~syncResult.success

\* the sync got past the connect and no put failed
UploadsCompleted ==
    /\ syncResult.done
    /\ syncErr \notin {"Private key not found", "connect failed", "put failed"}

\* C22: the executable's mode is set at most once per sync, only after every
\* candidate has been put and before sftp.end() is called; a sync that got past
\* the connect and in which no put failed has set it exactly once, also when it
\* had no candidate to put.
C22_ChmodOnce ==
    /\ chmodCalls <= 1
    /\ syncPc = "chmod" =>
            /\ chmodCalls = 0 /\ endCalls = 0
            /\ putSet = Range(filesToUpload)
            /\ uploaded = Len(filesToUpload)
    /\ chmodCalls = 1 => putSet = Range(filesToUpload)
    /\ syncPc = "end" => chmodCalls = 1 /\ endCalls = 0
    /\ UploadsCompleted => chmodCalls = 1

\* an incremental sync that skipped every file has set the mode and succeeded
C22_Witness ==
    /\ syncResult.done /\ syncResult.success
    /\ files # <<>>
    /\ filesToUpload = <<>>
    /\ chmodCalls = 1

\* the errors the Windows argument builder returns
BuilderErrors == {"Windows SDK not found", "lld-link is not installed"}

\* C23: while publish waits for the Windows argument builder, whatever the
\* builder finds on disk it returns a value; the value is a failure exactly when
\* the SDK cache or the linker is missing, and a failure names what is missing
\* and carries no argument and no environment.  Once publish holds such an error
\* as its warning, the build has been started without the cross-compile
\* arguments and the result carries the warning; with the missing-tools warning
\* the build is started as well.
C23_BuilderFailureReported ==
    /\ (pubPc = "prepareArgs" /\ getCrossCompileTarget(pubOpts.runtime) = "windows") =>
            \A in \in XwinInputs :
                in.runtime = pubOpts.runtime =>
                    LET r == WindowsCrossCompileArgs(in, platform) IN
                    /\ r.done
                    /\ r.success <=> (in.crt /\ in.lld)
                    /\ ~r.success =>
                            /\ r.args = <<>> /\ r.envKeys = {} /\ r.LIB = ""
                            /\ r.error = IF ~in.crt THEN "Windows SDK not found"
                                         ELSE "lld-link is not installed"
    /\ crossCompileWarning \in BuilderErrors =>
            /\ getCrossCompileTarget(pubOpts.runtime) = "windows"
            /\ ~crossArgs
            /\ "compile" \in Range(statusLog)
            /\ pubResult.done => pubResult.crossCompileWarning = crossCompileWarning
    /\ (crossCompileWarning = "missing tools" /\ pubPc \notin {"checkTools", "prepareArgs"}) =>
            "compile" \in Range(statusLog)

\* the linker was missing, the build ran all the same and publish succeeded with
\* the error as its warning
C23_Witness ==
    /\ crossCompileWarning = "lld-link is not installed"
    /\ ~crossArgs
    /\ buildExit = "exit0"
    /\ pubResult.done /\ pubResult.success
    /\ pubResult.crossCompileWarning = "lld-link is not installed"

\* the arguments that select the linker
LinkerSelectionArgs == {"-p:CppLinker=/opt/lld/bin/lld-link", "-p:CppLinker=lld-link"}

\* the arguments that do not depend on what is found on disk
FixedArgs == {"-p:DisableUnsupportedError=true", "-p:AcceptVSBuildToolsLicense=true",
              "-p:EnableSourceLink=false", "-p:EnableSourceControlManagerQueries=false"}

\* /LIBPATH:p for every existing library path, in one MSBuild property
ExpectedSearchArg ==
    LET one(i) == "/LIBPATH:" \o ExpectedLibPaths[i]
        n == Len(ExpectedLibPaths)
    IN "-p:IlcAdditionalLinkArgs=\"" \o
       SemicolonJoined([i \in 1..n |-> one(i)]) \o "\""

\* C24 (as claimed): when getWindowsCrossCompileArgs returns success, in every
\* copy of the function, its arguments hold exactly one linker selection, hold
\* exactly once the library-search entries of the library paths that exist when
\* at least one exists, and hold no library-search entry of any other path.
C24_LibrarySearchArgs ==
    (xwOut.done /\ xwOut.success) =>
        LET at(set) == {i \in 1..Len(xwOut.args) : xwOut.args[i] \in set} IN
        /\ Cardinality(at(LinkerSelectionArgs)) = 1
        /\ ExpectedLibPaths # <<>> => Cardinality(at({ExpectedSearchArg})) = 1
        /\ \A i \in 1..Len(xwOut.args) :
                xwOut.args[i] \in FixedArgs \cup LinkerSelectionArgs \cup {ExpectedSearchArg}

\* the OS family of a host platform, named as getCrossCompileTarget names them
OsFamily(plat) ==
    IF plat = "darwin" THEN "macos"
    ELSE IF plat = "linux" THEN "linux"
    ELSE "windows"

\* C25: publish waits for checkMissingTools or for the argument builder only in
\* a call whose target family differs from the host's family, with ahead-of-time
\* compilation requested and cross-compilation not disabled; a call whose target
\* family is the host's family never has cross-compile arguments or environment
\* added, nor a cross-compile warning.
C25_NativeUntouched ==
    /\ pubPc \in {"checkTools", "prepareArgs"} =>
            /\ OsFamily(platform) # getCrossCompileTarget(pubOpts.runtime)
            /\ pubOpts.publishAot
            /\ pubOpts.crossCompileEnabled
    /\ (pubPc # "idle" /\ OsFamily(platform) = getCrossCompileTarget(pubOpts.runtime)) =>
            /\ ~crossArgs
            /\ crossLibs = "n/a"
            /\ crossCompileWarning = ""
            /\ pubResult.done => pubResult.crossCompileWarning = ""

\* an ahead-of-time build for the host's own family has succeeded
C25_Witness ==
    /\ platform = "linux" /\ pubOpts.runtime = "linux-x64"
    /\ pubOpts.publishAot
    /\ pubResult.done /\ pubResult.success
    /\ ~crossArgs

\* C26 (as claimed): when every step that can be taken is eventually taken, a
\* deploy request that found its project and called publish eventually posts its
\* terminal message.
C26_EventuallyTerminal == (hPc = "publish") ~> (hPc = "done" /\ Terminals = {Len(posted)})

\* C27: a sync that returned success=true has connected, put every candidate,
\* set the mode of an executable that exists on the remote host and closed the
\* session, with no error caught on the way; after a failed chmod every
\* candidate has been put, the sync does not return success and the handler
\* never calls executeRemote.
C27_SuccessNeedsEveryStep ==
    /\ (syncResult.done /\ syncResult.success) =>
            /\ connectCalls = 1
            /\ putSet = Range(filesToUpload)
            /\ uploaded = Len(filesToUpload)
            /\ chmodCalls = 1
            /\ remote[AssemblyName].ok
            /\ endCalls = 1
            /\ syncErr = ""
    /\ syncErr = "chmod failed" =>
            /\ putSet = Range(filesToUpload)
            /\ syncResult.done => ~syncResult.success
            /\ calls.executeRemote = 0
            /\ execPc = "idle"
            /\ "status:start" \notin Range(posted)

\* every file was put, no remote file is the executable, the chmod failed and
\* the handler has reported the failed upload without starting the service
C27_Witness ==
    /\ syncErr = "chmod failed"
    /\ putSet # {} /\ putSet = Range(files)
    /\ ~remote[AssemblyName].ok
    /\ hPc = "done"
    /\ posted[Len(posted)] = "error:upload"
    /\ calls.executeRemote = 0

SameDisk(in, runtime) ==
    /\ in.runtime = runtime
    /\ in.crt = tcProbes.sdk.exists
    /\ in.lld = checkLld(tcProbes.lld).installed

\* C29: for the status detectToolchain resolved with and every runtime,
\* checkMissingTools is empty exactly when getToolchainSummary marks the
\* runtime's family ready; and when it is empty for a Windows runtime,
\* getWindowsCrossCompileArgs on the same disk returns success.
C29_ReadinessAgrees ==
    tcPc = "done" =>
        \A runtime \in Runtimes :
            LET missing == checkMissingTools(runtime, toolchain)
                summary == getToolchainSummary(toolchain)
            IN /\ StartsWith(runtime, "linux-") =>
                        (missing = <<>> <=> summary.linuxReady)
               /\ StartsWith(runtime, "win-") =>
                        /\ missing = <<>> <=> summary.windowsReady
                        /\ missing = <<>> =>
                                \A in \in XwinInputs :
                                    SameDisk(in, runtime) =>
                                        WindowsCrossCompileArgs(in, platform).success

\* every tool a Windows target needs was detected
C29_Witness ==
    /\ tcPc = "done"
    /\ checkMissingTools("win-x64", toolchain) = <<>>
    /\ getToolchainSummary(toolchain).windowsReady
    /\ ~getToolchainSummary(toolchain).linuxReady

\* C30 (as claimed): the deploy message doDeploy() posts for a local deploy
\* carries the state of the 'Clean Output' checkbox, and once the handler has
\* received the message of a form with the box checked and called publish, the
\* clean of an existing output directory was attempted.
C30_CleanFlagDelivered ==
    (webPc = "sent" /\ form.deployTarget = "local") =>
        /\ msg.cleanDestination = form.cleanDestination
        /\ (form.cleanDestination /\ hPc = "publish" /\ calls.clean = 0) =>
                local = EmptyDir

====
